---- MODULE Spec2Model ----
(***************************************************************************)
(* Model of the secure filesystem server (src/src/filesystem/index.ts):    *)
(* the path-containment validator, the tool handlers that use it, and the  *)
(* fuzzy patch engine applyFileEdits.                                      *)
(*                                                                         *)
(* Text is modelled as a sequence of one-character strings, so that        *)
(* String.startsWith, includes, replace, split, trim work on characters    *)
(* as they do in the code.  A path is such a text.  The filesystem is a    *)
(* case-sensitive POSIX tree with symbolic links.                          *)
(***************************************************************************)
EXTENDS Integers, Sequences, FiniteSets, TLC

VARIABLES
  fs,       \* the filesystem: existing absolute path |-> node
  fsBefore, \* the filesystem as it was when the last call arrived
  request,  \* the last request: the tool and its arguments
  trace,    \* events of the last call: validations and filesystem accesses
  result,   \* the response of the last call
  calls,    \* number of calls handled so far
  pending,  \* the calls in progress: what each holds between two awaits
  canvasVersions  \* CanvasManager's canvasVersions: canvas id |-> latest version

vars == <<fs, fsBefore, request, trace, result, calls, pending, canvasVersions>>

(***************************************************************************)
(* Bounds                                                                  *)
(***************************************************************************)
MaxCalls == 2        \* calls handled in one behaviour
MaxLen == 3          \* length of the file content drawn in InitEdit
MaxEditLen == 2      \* length of an edit's oldText and newText

(***************************************************************************)
(* Text helpers                                                            *)
(***************************************************************************)
\* String.prototype.toLowerCase on one character
Lower(c) ==
  CASE c = "A" -> "a"
    [] c = "B" -> "b"
    [] c = "D" -> "d"
    [] c = "E" -> "e"
    [] c = "F" -> "f"
    [] c = "N" -> "n"
    [] OTHER -> c

toLowerCase(s) == [i \in 1..Len(s) |-> Lower(s[i])]

startsWith(s, pre) == Len(pre) <= Len(s) /\ SubSeq(s, 1, Len(pre)) = pre

\* String.prototype.slice(k): the text from 0-based index k on
slice(s, k) == SubSeq(s, k + 1, Len(s))

SL == <<"/">>

\* the grave accent character (U+0060), which a TLA+ string cannot hold
BT == "grave"

(***************************************************************************)
(* path module (POSIX)                                                     *)
(***************************************************************************)
\* the segments of a path: split at "/", empty segments dropped
RECURSIVE SplitFrom(_, _, _)
SplitFrom(p, i, cur) ==
  IF i > Len(p)
    THEN IF cur = <<>> THEN <<>> ELSE <<cur>>
    ELSE IF p[i] = "/"
      THEN (IF cur = <<>> THEN <<>> ELSE <<cur>>) \o SplitFrom(p, i + 1, <<>>)
      ELSE SplitFrom(p, i + 1, Append(cur, p[i]))

Split(p) == SplitFrom(p, 1, <<>>)

\* "." dropped, ".." pops the segment before it (and is dropped at the root)
RECURSIVE NormSegs(_, _)
NormSegs(segs, acc) ==
  IF segs = <<>> THEN acc
  ELSE IF Head(segs) = <<".">> THEN NormSegs(Tail(segs), acc)
  ELSE IF Head(segs) = <<".", ".">>
    THEN NormSegs(Tail(segs), IF acc = <<>> THEN acc ELSE SubSeq(acc, 1, Len(acc) - 1))
  ELSE NormSegs(Tail(segs), Append(acc, Head(segs)))

RECURSIVE JoinSegs(_)
JoinSegs(segs) ==
  IF segs = <<>> THEN <<>> ELSE SL \o Head(segs) \o JoinSegs(Tail(segs))

\* an absolute path from its segments
AbsOf(segs) == IF segs = <<>> THEN SL ELSE JoinSegs(segs)

isAbsolute(p) == Len(p) > 0 /\ p[1] = "/"

\* process.cwd() and os.homedir() of the server process
cwd == <<"/", "a">>
homedir == <<"/", "b">>

\* path.resolve(p) / path.resolve(process.cwd(), p)
resolve(p) ==
  IF isAbsolute(p) THEN AbsOf(NormSegs(Split(p), <<>>))
  ELSE AbsOf(NormSegs(Split(cwd) \o Split(p), <<>>))

\* path.normalize of an absolute path
normalize(p) == AbsOf(NormSegs(Split(p), <<>>))

\* path.join(a, b) for an absolute a
join(a, b) == AbsOf(NormSegs(Split(a) \o Split(b), <<>>))

\* path.dirname of an absolute normalized path
FrontOf(segs) == IF segs = <<>> THEN SL ELSE AbsOf(SubSeq(segs, 1, Len(segs) - 1))
dirname(p) == FrontOf(Split(p))

\* path.basename of an absolute normalized path
LastOf(segs) == IF segs = <<>> THEN <<>> ELSE segs[Len(segs)]
basename(p) == LastOf(Split(p))

normalizePath(p) == toLowerCase(normalize(p))

expandHome(filepath) ==
  IF startsWith(filepath, <<"~", "/">>) \/ filepath = <<"~">>
    THEN join(homedir, slice(filepath, 1))
    ELSE filepath

\* process.argv.slice(2): the configured allowed directories
args == << <<"/", "a">> >>

allowedDirectories ==
  { normalizePath(resolve(expandHome(args[i]))) : i \in 1..Len(args) }

(***************************************************************************)
(* The filesystem underneath fs/promises.  A node is a directory, a        *)
(* regular file with a content, or a symbolic link with an absolute        *)
(* target.  Names are case-sensitive.  An operator named ...With takes the *)
(* results its caller computed as further parameters.                      *)
(***************************************************************************)
Dir == [kind |-> "dir", target |-> <<>>, content |-> <<>>]
File(c) == [kind |-> "file", target |-> <<>>, content |-> c]
Link(t) == [kind |-> "link", target |-> t, content |-> <<>>]
\* a directory that may not be read: listing it raises EACCES
Unlistable == [kind |-> "dir", target |-> <<>>, content |-> <<"EACCES">>]

Fail(code) == [ok |-> FALSE, path |-> <<>>, code |-> code]
Found(p) == [ok |-> TRUE, path |-> p, code |-> "none"]

IsPrefix(qs, ps) == Len(qs) <= Len(ps) /\ SubSeq(ps, 1, Len(qs)) = qs

\* p is q or lies beneath q, by whole segments
Within(p, q) == IsPrefix(Split(q), Split(p))

\* follow the segments from the real directory cur, resolving every link
RECURSIVE Walk(_, _, _, _), WalkWith(_, _, _, _)
Walk(f, cur, segs, fuel) ==
  IF segs = <<>> THEN Found(cur) ELSE WalkWith(f, join(cur, Head(segs)), Tail(segs), fuel)

WalkWith(f, nxt, rest, fuel) ==
  IF nxt \notin DOMAIN f THEN Fail("ENOENT")
  ELSE IF f[nxt].kind = "link"
    THEN IF fuel = 0 THEN Fail("ELOOP")
         ELSE Walk(f, SL, Split(f[nxt].target) \o rest, fuel - 1)
  ELSE IF f[nxt].kind = "file" /\ rest # <<>> THEN Fail("ENOTDIR")
  ELSE Walk(f, nxt, rest, fuel)

\* fs.realpath: the symlink-free location of an existing path
realpath(f, p) == Walk(f, SL, Split(p), Cardinality(DOMAIN f))

\* the location of the directory entry p itself: real parent plus last name
entryOfWith(f, p, rp) ==
  IF Split(p) = <<>> THEN Found(SL)
  ELSE IF ~rp.ok THEN rp
  ELSE IF f[rp.path].kind # "dir" THEN Fail("ENOTDIR")
  ELSE Found(join(rp.path, basename(p)))

entryOf(f, p) == entryOfWith(f, p, realpath(f, dirname(p)))

\* where open(p, O_CREAT) puts a file that realpath does not find
RECURSIVE createLoc(_, _, _), createLocWith(_, _, _)
createLoc(f, p, fuel) == createLocWith(f, entryOf(f, p), fuel)

createLocWith(f, e, fuel) ==
  IF ~e.ok THEN e
  ELSE IF e.path \notin DOMAIN f THEN e
  ELSE IF f[e.path].kind = "link"
    THEN IF fuel = 0 THEN Fail("ELOOP") ELSE createLoc(f, f[e.path].target, fuel - 1)
  ELSE e

FsOut(ok, f, real, effect, value) ==
  [ok |-> ok, fs |-> f, real |-> real, effect |-> effect, value |-> value]

FsFailed(f) == FsOut(FALSE, f, <<>>, "none", <<>>)

\* fs.readFile(p, 'utf-8')
readFileWith(f, r) ==
  IF r.ok /\ f[r.path].kind = "file"
    THEN FsOut(TRUE, f, r.path, "read", f[r.path].content)
    ELSE FsFailed(f)

readFile(f, p) == readFileWith(f, realpath(f, p))

\* fs.stat(p): follows links
statWith(f, r) ==
  IF r.ok THEN FsOut(TRUE, f, r.path, "read", f[r.path].kind) ELSE FsFailed(f)

stat(f, p) == statWith(f, realpath(f, p))

\* fs.writeFile(p, content, 'utf-8'): truncates an existing file, creates a missing one
writeFileWith(f, content, r, c) ==
  IF r.ok
    THEN IF f[r.path].kind = "file"
           THEN FsOut(TRUE, [f EXCEPT ![r.path] = File(content)], r.path, "modify", <<>>)
           ELSE FsFailed(f)
    ELSE IF c.ok /\ c.path \notin DOMAIN f
           THEN FsOut(TRUE, (c.path :> File(content)) @@ f, c.path, "create", <<>>)
           ELSE FsFailed(f)

writeFile(f, p, content) ==
  writeFileWith(f, content, realpath(f, p), createLoc(f, p, Cardinality(DOMAIN f)))

MkOut(ok, made, p) == [ok |-> ok, made |-> made, path |-> p]

\* the directories mkdir -p has to create below the real directory cur
RECURSIVE mkdirWalk(_, _, _, _), mkdirWalkWith(_, _, _, _), mkdirLinkWith(_, _, _, _)
mkdirWalk(f, cur, segs, made) ==
  IF segs = <<>> THEN MkOut(TRUE, made, cur)
  ELSE mkdirWalkWith(f, join(cur, Head(segs)), Tail(segs), made)

mkdirWalkWith(f, nxt, rest, made) ==
  IF nxt \in made \/ nxt \notin DOMAIN f THEN mkdirWalk(f, nxt, rest, made \cup {nxt})
  ELSE IF f[nxt].kind = "link" THEN mkdirLinkWith(f, realpath(f, nxt), rest, made)
  ELSE IF f[nxt].kind = "file" THEN MkOut(FALSE, {}, <<>>)
  ELSE mkdirWalk(f, nxt, rest, made)

mkdirLinkWith(f, r, rest, made) ==
  IF r.ok /\ f[r.path].kind = "dir" THEN mkdirWalk(f, r.path, rest, made)
  ELSE MkOut(FALSE, {}, <<>>)

\* fs.mkdir(p, { recursive: true })
mkdirWith(f, m) ==
  IF ~m.ok THEN FsOut(FALSE, f, <<>>, "none", {})
  ELSE FsOut(TRUE, [q \in m.made |-> Dir] @@ f, m.path,
             IF m.made = {} THEN "read" ELSE "create", m.made)

mkdir(f, p) == mkdirWith(f, mkdirWalk(f, SL, Split(p), {}))

Children(f, d) == { q \in DOMAIN f : q # SL /\ dirname(q) = d }

RECURSIVE SetToSeq(_), SetToSeqWith(_, _)
SetToSeq(S) == IF S = {} THEN <<>> ELSE SetToSeqWith(S, CHOOSE y \in S : TRUE)
SetToSeqWith(S, x) == <<x>> \o SetToSeq(S \ {x})

\* C28 mutant: a Dirent that is a link has the type of what the link leads to
readdirFollowing(f, r) ==
  IF r.ok /\ f[r.path].kind = "dir" /\ f[r.path] # Unlistable
    THEN FsOut(TRUE, f, r.path, "read",
               SetToSeq({ [name |-> basename(q),
                           kind |-> IF stat(f, q).ok THEN stat(f, q).value ELSE f[q].kind] :
                          q \in Children(f, r.path) }))
    ELSE FsFailed(f)

\* fs.readdir(p, { withFileTypes: true }): the Dirents, in the listing's order
readdirWith(f, r) ==
  IF r.ok /\ f[r.path].kind = "dir" /\ f[r.path] # Unlistable
    THEN FsOut(TRUE, f, r.path, "read",
               SetToSeq({ [name |-> basename(q), kind |-> f[q].kind] : q \in Children(f, r.path) }))
    ELSE FsFailed(f)

readdir(f, p) == readdirWith(f, realpath(f, p))

\* the path q of the subtree at from, moved to the subtree at to
Rebase(q, from, to) ==
  AbsOf(Split(to) \o SubSeq(Split(q), Len(Split(from)) + 1, Len(Split(q))))

MvOut(ok, f, from, to) == [ok |-> ok, fs |-> f, from |-> from, to |-> to]

\* the tree after the subtree at s has replaced whatever was at d
moveTree(f, s, d, moved) ==
  [q \in (DOMAIN f \ moved) \ {d} |-> f[q]]
    @@ [q \in { Rebase(m, s, d) : m \in moved } |->
          f[CHOOSE m \in moved : Rebase(m, s, d) = q]]

\* fs.rename(src, dst): moves the entry src itself (links are not followed),
\* replacing an existing file, link or empty directory at dst
renameWith(f, s, d) ==
  IF ~s.ok \/ ~d.ok THEN MvOut(FALSE, f, <<>>, <<>>)
  ELSE IF s.path \notin DOMAIN f \/ s.path = SL \/ d.path = SL THEN MvOut(FALSE, f, <<>>, <<>>)
  ELSE IF s.path = d.path THEN MvOut(TRUE, f, s.path, d.path)
  ELSE IF f[s.path].kind = "dir" /\ Within(d.path, s.path) THEN MvOut(FALSE, f, <<>>, <<>>)
  ELSE IF d.path \in DOMAIN f /\ f[s.path].kind = "dir"
          /\ (f[d.path].kind # "dir" \/ Children(f, d.path) # {})
    THEN MvOut(FALSE, f, <<>>, <<>>)
  ELSE IF d.path \in DOMAIN f /\ f[s.path].kind # "dir" /\ f[d.path].kind = "dir"
    THEN MvOut(FALSE, f, <<>>, <<>>)
  ELSE MvOut(TRUE, moveTree(f, s.path, d.path, { q \in DOMAIN f : Within(q, s.path) }),
             s.path, d.path)

rename(f, src, dst) == renameWith(f, entryOf(f, src), entryOf(f, dst))

(***************************************************************************)
(* Security utilities: validatePath                                        *)
(***************************************************************************)
\* allowedDirectories.some(dir => normalized.startsWith(dir))
isAllowedPath(normalized) ==
  \E dir \in allowedDirectories : startsWith(normalized, dir)

Valid(absolute, p) ==
  [ok |-> TRUE, path |-> p, kind |-> "none", abs |-> absolute]
Invalid(absolute, kind) ==
  [ok |-> FALSE, path |-> <<>>, kind |-> kind, abs |-> absolute]

\* the value returned for a path that does not exist yet: return absolute
\* C5 mutant: the resolved parent joined with the last segment
newPathResolved(absolute, realParentPath) == join(realParentPath, basename(absolute))

newPathResult(absolute, realParentPath) == absolute

\* the inner try: the parent's realpath failing and the "Access denied - parent
\* directory outside allowed directories" error thrown inside it both end in
\* the inner catch, which throws "Parent directory does not exist: ..."
validateParentWith(absolute, realParent) ==
  IF realParent.ok /\ isAllowedPath(normalizePath(realParent.path))
    THEN Valid(absolute, newPathResult(absolute, realParent.path))
    ELSE Invalid(absolute, "ParentMissing")

\* the outer try: realpath failing and the "Access denied - symlink target
\* outside allowed directories" error thrown inside it both end in the catch,
\* which goes on to verify the parent directory
validateRealWith(f, absolute, real) ==
  IF real.ok /\ isAllowedPath(normalizePath(real.path))
    THEN Valid(absolute, real.path)
    ELSE validateParentWith(absolute, realpath(f, dirname(absolute)))

validateAbsolute(f, absolute) ==
  IF ~isAllowedPath(normalizePath(absolute))
    THEN Invalid(absolute, "AccessDenied")
    ELSE validateRealWith(f, absolute, realpath(f, absolute))

validatePath(f, requestedPath) == validateAbsolute(f, resolve(expandHome(requestedPath)))

(***************************************************************************)
(* Events of a call: each validatePath and each fs/promises access the     *)
(* handler makes, in program order.                                        *)
(***************************************************************************)
\* a validatePath(arg) that returned path, or threw an error of kind
VEvent(arg, v) ==
  [ev |-> "validate", op |-> "validatePath", arg |-> arg, path |-> v.path,
   real |-> v.abs, ok |-> v.ok, kind |-> v.kind]

\* an fs call op(path) with outcome o: the real location it touched and how
FEvent(op, path, o) ==
  [ev |-> "fs", op |-> op, arg |-> path, path |-> path,
   real |-> o.real, ok |-> o.ok, kind |-> o.effect]

\* the response of a call
Response(tool, isError, error, text) ==
  [tool |-> tool, isError |-> isError, error |-> error, text |-> text]

\* the state a handler leaves behind
Outcome(f, tr, res) == [fs |-> f, trace |-> tr, result |-> res]

\* catch (error) of the CallTool handler: { content: "Error: ...", isError: true }
ErrorResponse(tool, error) == Response(tool, TRUE, error, <<>>)

\* a call whose validatePath threw
Rejected(f, tool, path, v) == Outcome(f, <<VEvent(path, v)>>, ErrorResponse(tool, v.kind))

(***************************************************************************)
(* String methods used by the patch engine                                 *)
(***************************************************************************)
\* the characters \s matches and trim() strips
WS == {" ", "\t", "\n", "\r"}

occursAt(s, sub, i) == i + Len(sub) - 1 <= Len(s) /\ SubSeq(s, i, i + Len(sub) - 1) = sub

\* 1-based index of the first occurrence of sub in s from index i on, 0 when
\* there is none
RECURSIVE indexFrom(_, _, _)
indexFrom(s, sub, i) ==
  IF i + Len(sub) - 1 > Len(s) THEN 0
  ELSE IF occursAt(s, sub, i) THEN i
  ELSE indexFrom(s, sub, i + 1)

indexOf(s, sub) == indexFrom(s, sub, 1)

includes(s, sub) == indexOf(s, sub) > 0

\* the replacement text String.prototype.replace substitutes for a string
\* pattern: $$ is $, $& the match, $ and a grave accent the text before it,
\* $ and an apostrophe the text after it
RECURSIVE expandReplacement(_, _, _, _)
expandReplacement(rep, matched, before, after) ==
  IF rep = <<>> THEN <<>>
  ELSE IF Len(rep) >= 2 /\ rep[1] = "$" /\ rep[2] \in {"$", "&", BT, "'"}
    THEN (CASE rep[2] = "$" -> <<"$">>
            [] rep[2] = "&" -> matched
            [] rep[2] = BT -> before
            [] rep[2] = "'" -> after)
         \o expandReplacement(SubSeq(rep, 3, Len(rep)), matched, before, after)
    ELSE <<rep[1]>> \o expandReplacement(Tail(rep), matched, before, after)

replaceParts(new, old, before, after) ==
  before \o expandReplacement(new, old, before, after) \o after

replaceAt(s, old, new, i) ==
  IF i = 0 THEN s
  ELSE replaceParts(new, old, SubSeq(s, 1, i - 1), SubSeq(s, i + Len(old), Len(s)))

\* s.replace(old, new) with a string pattern: the first occurrence only
replace(s, old, new) == replaceAt(s, old, new, indexOf(s, old))

\* s.split('\n'): always at least one line
RECURSIVE splitLinesFrom(_, _, _)
splitLinesFrom(s, i, cur) ==
  IF i > Len(s) THEN <<cur>>
  ELSE IF s[i] = "\n" THEN <<cur>> \o splitLinesFrom(s, i + 1, <<>>)
  ELSE splitLinesFrom(s, i + 1, Append(cur, s[i]))

splitLines(s) == splitLinesFrom(s, 1, <<>>)

\* lines.join('\n')
RECURSIVE joinLines(_)
joinLines(lines) ==
  IF lines = <<>> THEN <<>>
  ELSE IF Len(lines) = 1 THEN lines[1]
  ELSE lines[1] \o <<"\n">> \o joinLines(Tail(lines))

\* line.match(/^\s*/)[0]: the leading whitespace
RECURSIVE leadingWs(_)
leadingWs(s) ==
  IF s # <<>> /\ s[1] \in WS THEN <<s[1]>> \o leadingWs(Tail(s)) ELSE <<>>

trimStart(s) == SubSeq(s, Len(leadingWs(s)) + 1, Len(s))

RECURSIVE trimEnd(_)
trimEnd(s) ==
  IF s # <<>> /\ s[Len(s)] \in WS THEN trimEnd(SubSeq(s, 1, Len(s) - 1)) ELSE s

trim(s) == trimEnd(trimStart(s))

\* ' '.repeat(n)
repeat(c, n) == [i \in 1..n |-> c]

Max(a, b) == IF a >= b THEN a ELSE b

\* C21 mutant: the text is taken as it is written
lineEndingsKept(text) == text

\* text.replace(/\r\n/g, '\n')
RECURSIVE normalizeLineEndings(_)
normalizeLineEndings(text) ==
  IF text = <<>> THEN <<>>
  ELSE IF Len(text) >= 2 /\ text[1] = "\r" /\ text[2] = "\n"
    THEN <<"\n">> \o normalizeLineEndings(SubSeq(text, 3, Len(text)))
    ELSE <<text[1]>> \o normalizeLineEndings(Tail(text))

(***************************************************************************)
(* applyFileEdits, one edit                                                *)
(***************************************************************************)
\* oldLines.every((oldLine, j) => oldLine.trim() === potentialMatch[j].trim())
isMatch(oldLines, contentLines, i) ==
  \A j \in 1..Len(oldLines) : trim(oldLines[j]) = trim(contentLines[i + j - 1])

\* C18 mutant: the last window that matches is the one taken
lastWindow(oldLines, contentLines, i) ==
  IF \E k \in i..(Len(contentLines) - Len(oldLines) + 1) : isMatch(oldLines, contentLines, k)
    THEN CHOOSE k \in i..(Len(contentLines) - Len(oldLines) + 1) :
           /\ isMatch(oldLines, contentLines, k)
           /\ \A m \in (k + 1)..(Len(contentLines) - Len(oldLines) + 1) :
                ~isMatch(oldLines, contentLines, m)
    ELSE 0

\* for (let i = 0; i <= contentLines.length - oldLines.length; i++): the first
\* window start (1-based) from i on that matches, 0 when the loop ends without
RECURSIVE firstWindow(_, _, _)
firstWindow(oldLines, contentLines, i) ==
  IF i > Len(contentLines) - Len(oldLines) + 1 THEN 0
  ELSE IF isMatch(oldLines, contentLines, i) THEN i
  ELSE firstWindow(oldLines, contentLines, i + 1)

\* the first line of the replacement: the matched line's indentation kept
\* C10 mutant: the new line keeps its own leading whitespace as well
firstNewLineUntrimmed(originalIndent, line) == originalIndent \o line

firstNewLine(originalIndent, line) == originalIndent \o trimStart(line)

\* C19 mutant: the new line's own indentation is added in full
laterIndentedInFull(originalIndent, oldIndent, newIndent, line) ==
  IF oldIndent # <<>> /\ newIndent # <<>>
    THEN originalIndent \o newIndent \o trimStart(line)
    ELSE line

laterIndented(originalIndent, oldIndent, newIndent, line) ==
  IF oldIndent # <<>> /\ newIndent # <<>>
    THEN originalIndent \o repeat(" ", Max(0, Len(newIndent) - Len(oldIndent)))
           \o trimStart(line)
    ELSE line

\* a later line of the replacement; oldLine is <<>> when oldLines[j] is undefined
laterNewLine(originalIndent, oldLine, line) ==
  laterIndented(originalIndent, leadingWs(oldLine), leadingWs(line), line)

\* normalizedNew.split('\n').map((line, j) => ...)
newLinesOf(originalIndent, oldLines, lines) ==
  [j \in 1..Len(lines) |->
     IF j = 1 THEN firstNewLine(originalIndent, lines[j])
     ELSE laterNewLine(originalIndent,
                       IF j <= Len(oldLines) THEN oldLines[j] ELSE <<>>, lines[j])]

\* contentLines.splice(i, oldLines.length, ...newLines)
splice(contentLines, i, n, newLines) ==
  SubSeq(contentLines, 1, i - 1) \o newLines
    \o SubSeq(contentLines, i + n, Len(contentLines))

EditOut(ok, content) == [ok |-> ok, content |-> content]

\* the line-by-line step, given the first matching window i (0: none)
\* C8 mutant: an edit that matched nothing is passed over
notFoundIgnored(modifiedContent) == EditOut(TRUE, modifiedContent)

\* if (!matchFound) throw new Error("Could not find exact match for edit: ...")
notFound(modifiedContent) == EditOut(FALSE, modifiedContent)

fuzzyStep(modifiedContent, oldLines, contentLines, normalizedNew, i) ==
  IF i = 0 THEN notFound(modifiedContent)
  ELSE EditOut(TRUE,
         joinLines(splice(contentLines, i, Len(oldLines),
                          newLinesOf(leadingWs(contentLines[i]), oldLines,
                                     splitLines(normalizedNew)))))

fuzzyMatch(modifiedContent, oldLines, contentLines, normalizedNew) ==
  fuzzyStep(modifiedContent, oldLines, contentLines, normalizedNew,
            firstWindow(oldLines, contentLines, 1))

\* the exact step applies: modifiedContent.includes(normalizedOld)
exactStep(modifiedContent, normalizedOld) == includes(modifiedContent, normalizedOld)

applyNormalized(modifiedContent, normalizedOld, normalizedNew) ==
  IF exactStep(modifiedContent, normalizedOld)
    THEN EditOut(TRUE, replace(modifiedContent, normalizedOld, normalizedNew))
    ELSE fuzzyMatch(modifiedContent, splitLines(normalizedOld), splitLines(modifiedContent),
                    normalizedNew)

\* one pass of the loop body over edit: the new content, or no match
applyEdit(modifiedContent, edit) ==
  applyNormalized(modifiedContent, normalizeLineEndings(edit.oldText),
                  normalizeLineEndings(edit.newText))

EditsOut(ok, content, failed) == [ok |-> ok, content |-> content, failed |-> failed]

\* for (const edit of edits): the content after all edits, or the first edit
\* that did not match
RECURSIVE applyEdits(_, _), applyEditsWith(_, _, _)
applyEdits(modifiedContent, edits) ==
  IF edits = <<>> THEN EditsOut(TRUE, modifiedContent, <<>>)
  ELSE applyEditsWith(modifiedContent, edits, applyEdit(modifiedContent, Head(edits)))

\* C16 mutant: every edit is matched against the content it started from
applyEditsToOriginal(modifiedContent, edits, r) ==
  IF r.ok THEN applyEdits(modifiedContent, Tail(edits))
  ELSE EditsOut(FALSE, modifiedContent, Head(edits).oldText)

applyEditsWith(modifiedContent, edits, r) ==
  IF r.ok THEN applyEdits(r.content, Tail(edits))
  ELSE EditsOut(FALSE, modifiedContent, Head(edits).oldText)

(***************************************************************************)
(* createUnifiedDiff and applyFileEdits                                    *)
(***************************************************************************)
RECURSIVE commonPrefix(_, _)
commonPrefix(a, b) ==
  IF a # <<>> /\ b # <<>> /\ Head(a) = Head(b)
    THEN 1 + commonPrefix(Tail(a), Tail(b)) ELSE 0

Reverse(q) == [i \in 1..Len(q) |-> q[Len(q) + 1 - i]]

\* every line of lines with the marker mark in front and a newline behind
RECURSIVE marked(_, _)
marked(mark, lines) ==
  IF lines = <<>> THEN <<>>
  ELSE <<mark>> \o Head(lines) \o <<"\n">> \o marked(mark, Tail(lines))

diffHeader(filepath) ==
  <<"-", "-", "-", " ">> \o filepath \o <<"\n", "+", "+", "+", " ">> \o filepath \o <<"\n">>

\* one hunk: up to three context lines around the removed and the added lines
hunk(a, b, pre, suf) ==
  <<"@", "@", "\n">>
    \o marked(" ", SubSeq(a, Max(1, pre - 2), pre))
    \o marked("-", SubSeq(a, pre + 1, Len(a) - suf))
    \o marked("+", SubSeq(b, pre + 1, Len(b) - suf))
    \o marked(" ", SubSeq(a, Len(a) - suf + 1, IF suf > 3 THEN Len(a) - suf + 3 ELSE Len(a)))

hunkAfter(a, b, pre) ==
  hunk(a, b, pre, commonPrefix(Reverse(SubSeq(a, pre + 1, Len(a))),
                               Reverse(SubSeq(b, pre + 1, Len(b)))))

diffLines(a, b, filepath) ==
  IF a = b THEN diffHeader(filepath)
  ELSE diffHeader(filepath) \o hunkAfter(a, b, commonPrefix(a, b))

\* createTwoFilesPatch(filepath, filepath, original, new, 'original', 'modified'):
\* the two header lines, then (when the texts differ) the hunk
createUnifiedDiff(originalContent, newContent, filepath) ==
  diffLines(splitLines(normalizeLineEndings(originalContent)),
            splitLines(normalizeLineEndings(newContent)), filepath)

\* C20 mutant: the fence is never made longer
numBackticksFixed(diff, n) == n

\* numBackticks starts at n and grows while the diff holds a run of that many
RECURSIVE numBackticksFrom(_, _)
numBackticksFrom(diff, n) ==
  IF includes(diff, repeat(BT, n)) THEN numBackticksFrom(diff, n + 1) ELSE n

fenced(diff, numBackticks) ==
  repeat(BT, numBackticks) \o <<"d", "i", "f", "f", "\n">> \o diff
    \o repeat(BT, numBackticks) \o <<"\n", "\n">>

formatDiff(diff) == fenced(diff, numBackticksFrom(diff, Len(<<BT, BT, BT>>)))

\* whether the final content is written: if (!dryRun)
\* C9 mutant: the file is written whatever dryRun says
persistsAlways(dryRun) == TRUE

persists(dryRun) == ~dryRun

EditsDone(ok, f, events, error, text) ==
  [ok |-> ok, fs |-> f, events |-> events, error |-> error, text |-> text]

\* after the diff is formatted: write unless dryRun, return formattedDiff
applyWriteWith(f, filePath, rdEv, formattedDiff, wr) ==
  IF ~wr.ok THEN EditsDone(FALSE, f, <<rdEv, FEvent("writeFile", filePath, wr)>>, "IOError", <<>>)
  ELSE EditsDone(TRUE, wr.fs, <<rdEv, FEvent("writeFile", filePath, wr)>>, "none",
                 formattedDiff)

\* C26 mutant: the content reached so far is written although an edit did
\* not match
applyEditsDoneEager(f, filePath, dryRun, rdEv, content, r) ==
  IF ~r.ok
    THEN EditsDone(FALSE, writeFile(f, filePath, r.content).fs,
                   <<rdEv, FEvent("writeFile", filePath, writeFile(f, filePath, r.content))>>,
                   "EditNotFound", r.failed)
  ELSE applyWriteWith(f, filePath, rdEv,
                      formatDiff(createUnifiedDiff(content, r.content, filePath)),
                      writeFile(f, filePath, r.content))

applyEditsDone(f, filePath, dryRun, rdEv, content, r) ==
  IF ~r.ok THEN EditsDone(FALSE, f, <<rdEv>>, "EditNotFound", r.failed)
  ELSE IF ~persists(dryRun)
    THEN EditsDone(TRUE, f, <<rdEv>>, "none",
                   formatDiff(createUnifiedDiff(content, r.content, filePath)))
  ELSE applyWriteWith(f, filePath, rdEv,
                      formatDiff(createUnifiedDiff(content, r.content, filePath)),
                      writeFile(f, filePath, r.content))

applyContentWith(f, filePath, edits, dryRun, rdEv, content) ==
  applyEditsDone(f, filePath, dryRun, rdEv, content, applyEdits(content, edits))

applyReadWith(f, filePath, edits, dryRun, rd) ==
  IF ~rd.ok THEN EditsDone(FALSE, f, <<FEvent("readFile", filePath, rd)>>, "IOError", <<>>)
  ELSE applyContentWith(f, filePath, edits, dryRun, FEvent("readFile", filePath, rd),
                        normalizeLineEndings(rd.value))

\* applyFileEdits(filePath, edits, dryRun): the filesystem afterwards, the fs
\* events, and the formatted diff or the error thrown
applyFileEdits(f, filePath, edits, dryRun) ==
  applyReadWith(f, filePath, edits, dryRun, readFile(f, filePath))

(***************************************************************************)
(* searchFiles                                                             *)
(***************************************************************************)
\* one path segment against one pattern segment in which * matches any text
RECURSIVE segMatch(_, _)
segMatch(seg, pat) ==
  IF pat = <<>> THEN seg = <<>>
  ELSE IF Head(pat) = "*"
    THEN \E k \in 0..Len(seg) : segMatch(SubSeq(seg, k + 1, Len(seg)), Tail(pat))
  ELSE seg # <<>> /\ Head(seg) = Head(pat) /\ segMatch(Tail(seg), Tail(pat))

GLOBSTAR == <<"*", "*">>

\* minimatch's matchOne on segments: ** spans any number of segments; a pattern
\* left over when the path is used up does not match
RECURSIVE matchOne(_, _)
matchOne(file, pat) ==
  IF file = <<>> THEN pat = <<>>
  ELSE IF pat = <<>> THEN FALSE
  ELSE IF Head(pat) = GLOBSTAR
    THEN IF Tail(pat) = <<>> THEN TRUE
         ELSE \E k \in 0..(Len(file) - 1) :
                matchOne(SubSeq(file, k + 1, Len(file)), Tail(pat))
  ELSE segMatch(Head(file), Head(pat)) /\ matchOne(Tail(file), Tail(pat))

\* minimatch(relativePath, globPattern, { dot: true })
minimatch(relativePath, globPattern) == matchOne(Split(relativePath), Split(globPattern))

\* C11 mutant: the exclude pattern is used as the glob as it is
globPatternAsGiven(pattern) == pattern

\* pattern.includes('*') ? pattern : `**/${pattern}/**`
globPatternOf(pattern) ==
  IF includes(pattern, <<"*">>) THEN pattern
  ELSE GLOBSTAR \o SL \o pattern \o SL \o GLOBSTAR

RelOf(segs) == IF segs = <<>> THEN <<>> ELSE Tail(JoinSegs(segs))

\* path.relative(rootPath, fullPath) for a fullPath beneath rootPath
relative(rootPath, fullPath) ==
  RelOf(SubSeq(Split(fullPath), Len(Split(rootPath)) + 1, Len(Split(fullPath))))

excludedBy(relativePath, excludePatterns) ==
  \E k \in 1..Len(excludePatterns) :
    minimatch(relativePath, globPatternOf(excludePatterns[k]))

shouldExclude(rootPath, fullPath, excludePatterns) ==
  excludedBy(relative(rootPath, fullPath), excludePatterns)

\* entry.name.toLowerCase().includes(pattern.toLowerCase())
nameMatches(name, pattern) == includes(toLowerCase(name), toLowerCase(pattern))

Walked(ok, events, results) == [ok |-> ok, events |-> events, results |-> results]

\* C23 mutant: an error in one part of the walk fails the walk it is part of
BothFailing(here, rest) ==
  Walked(here.ok /\ rest.ok, here.events \o rest.events, here.results \o rest.results)

\* what two consecutive parts of the walk did; an error thrown in either is
\* caught by the try around the entry it happened in
Both(here, rest) == Walked(TRUE, here.events \o rest.events, here.results \o rest.results)

\* search(currentPath): ok is FALSE when its own readdir threw; events and
\* results are what the walk did and pushed
RECURSIVE search(_, _, _, _, _), searchWith(_, _, _, _, _, _),
          searchEntries(_, _, _, _, _, _), searchEntry(_, _, _, _, _, _, _)
search(f, rootPath, currentPath, pattern, excludePatterns) ==
  searchWith(f, rootPath, currentPath, pattern, excludePatterns, readdir(f, currentPath))

searchWith(f, rootPath, currentPath, pattern, excludePatterns, rd) ==
  IF ~rd.ok THEN Walked(FALSE, <<FEvent("readdir", currentPath, rd)>>, <<>>)
  ELSE Both(Walked(TRUE, <<FEvent("readdir", currentPath, rd)>>, <<>>),
            searchEntries(f, rootPath, currentPath, rd.value, pattern, excludePatterns))

\* for (const entry of entries) { try { ... } catch { continue } }
searchEntries(f, rootPath, currentPath, entries, pattern, excludePatterns) ==
  IF entries = <<>> THEN Walked(TRUE, <<>>, <<>>)
  ELSE Both(searchEntry(f, rootPath, join(currentPath, Head(entries).name), Head(entries),
                        pattern, excludePatterns,
                        validatePath(f, join(currentPath, Head(entries).name))),
            searchEntries(f, rootPath, currentPath, Tail(entries), pattern, excludePatterns))

\* C24 mutant: an excluded entry is not returned but is still descended into
searchEntryDescending(f, rootPath, fullPath, entry, pattern, excludePatterns, v) ==
  IF ~v.ok
    THEN Walked(TRUE, <<VEvent(fullPath, v)>>, <<>>)
    ELSE Both(Walked(TRUE, <<VEvent(fullPath, v)>>,
                     IF nameMatches(entry.name, pattern)
                          /\ ~shouldExclude(rootPath, fullPath, excludePatterns)
                       THEN <<fullPath>> ELSE <<>>),
              IF entry.kind = "dir"
                THEN search(f, rootPath, fullPath, pattern, excludePatterns)
                ELSE Walked(TRUE, <<>>, <<>>))

\* the body of the try for one entry; a search of a subdirectory that throws
\* is caught here like every other error
searchEntry(f, rootPath, fullPath, entry, pattern, excludePatterns, v) ==
  IF ~v.ok \/ shouldExclude(rootPath, fullPath, excludePatterns)
    THEN Walked(TRUE, <<VEvent(fullPath, v)>>, <<>>)
    ELSE Both(Walked(TRUE, <<VEvent(fullPath, v)>>,
                     IF nameMatches(entry.name, pattern) THEN <<fullPath>> ELSE <<>>),
              IF entry.kind = "dir"
                THEN search(f, rootPath, fullPath, pattern, excludePatterns)
                ELSE Walked(TRUE, <<>>, <<>>))

\* searchFiles(rootPath, pattern, excludePatterns): throws when the readdir of
\* rootPath itself throws
searchFiles(f, rootPath, pattern, excludePatterns) ==
  search(f, rootPath, rootPath, pattern, excludePatterns)

(***************************************************************************)
(* CallTool handlers.  Each yields the filesystem it leaves, the events it  *)
(* made and its response; an error thrown anywhere becomes an isError       *)
(* response.                                                               *)
(***************************************************************************)
\* the response after one fs call o on validPath
Accessed(tool, op, path, v, validPath, o, text) ==
  Outcome(o.fs, <<VEvent(path, v), FEvent(op, validPath, o)>>,
          IF o.ok THEN Response(tool, FALSE, "none", text) ELSE ErrorResponse(tool, "IOError"))

\* the path a handler hands to fs: const validPath = await validatePath(...)
\* C7 mutant: the handler passes the request's own path on
requestedPathOf(path, v) == path

validPathOf(path, v) == v.path

readFileValid(f, path, v, validPath) ==
  Accessed("read_file", "readFile", path, v, validPath, readFile(f, validPath),
           readFile(f, validPath).value)

read_fileWith(f, path, v) ==
  IF ~v.ok THEN Rejected(f, "read_file", path, v)
  ELSE readFileValid(f, path, v, validPathOf(path, v))

read_file(f, path) == read_fileWith(f, path, validatePath(f, path))

\* one element of parsed.data.paths.map(async (filePath) => { try ... catch ... })
ReadEntry(filePath, ok, text) == [path |-> filePath, ok |-> ok, text |-> text]

readOneValid(filePath, v, validPath, rd) ==
  [events |-> <<VEvent(filePath, v), FEvent("readFile", validPath, rd)>>,
   entry |-> ReadEntry(filePath, rd.ok, rd.value)]

readOneWith(f, filePath, v) ==
  IF ~v.ok THEN [events |-> <<VEvent(filePath, v)>>, entry |-> ReadEntry(filePath, FALSE, <<>>)]
  ELSE readOneValid(filePath, v, validPathOf(filePath, v),
                    readFile(f, validPathOf(filePath, v)))

readOne(f, filePath) == readOneWith(f, filePath, validatePath(f, filePath))

ReadBoth(one, rest) ==
  [events |-> one.events \o rest.events, entries |-> <<one.entry>> \o rest.entries]

RECURSIVE readAll(_, _)
readAll(f, paths) ==
  IF paths = <<>> THEN [events |-> <<>>, entries |-> <<>>]
  ELSE ReadBoth(readOne(f, Head(paths)), readAll(f, Tail(paths)))

\* C14 mutant: one failed path rejects the whole call
readAllRejecting(f, all) ==
  IF \E k \in DOMAIN all.entries : ~all.entries[k].ok
    THEN Outcome(f, all.events, ErrorResponse("read_multiple_files", "IOError"))
    ELSE Outcome(f, all.events, Response("read_multiple_files", FALSE, "none", all.entries))

readAllDone(f, all) ==
  Outcome(f, all.events, Response("read_multiple_files", FALSE, "none", all.entries))

read_multiple_files(f, paths) == readAllDone(f, readAll(f, paths))

writeFileValid(f, path, content, v, validPath) ==
  Accessed("write_file", "writeFile", path, v, validPath,
           writeFile(f, validPath, content), path)

write_fileWith(f, path, content, v) ==
  IF ~v.ok THEN Rejected(f, "write_file", path, v)
  ELSE writeFileValid(f, path, content, v, validPathOf(path, v))

write_file(f, path, content) == write_fileWith(f, path, content, validatePath(f, path))

editFileDone(path, v, r) ==
  Outcome(r.fs, <<VEvent(path, v)>> \o r.events,
          Response("edit_file", ~r.ok, r.error, r.text))

edit_fileWith(f, path, edits, dryRun, v) ==
  IF ~v.ok THEN Rejected(f, "edit_file", path, v)
  ELSE editFileDone(path, v, applyFileEdits(f, validPathOf(path, v), edits, dryRun))

edit_file(f, path, edits, dryRun) ==
  edit_fileWith(f, path, edits, dryRun, validatePath(f, path))

mkdirValid(f, path, v, validPath) ==
  Accessed("create_directory", "mkdir", path, v, validPath, mkdir(f, validPath), path)

create_directoryWith(f, path, v) ==
  IF ~v.ok THEN Rejected(f, "create_directory", path, v)
  ELSE mkdirValid(f, path, v, validPathOf(path, v))

create_directory(f, path) == create_directoryWith(f, path, validatePath(f, path))

readdirValid(f, path, v, validPath) ==
  Accessed("list_directory", "readdir", path, v, validPath, readdir(f, validPath),
           readdir(f, validPath).value)

list_directoryWith(f, path, v) ==
  IF ~v.ok THEN Rejected(f, "list_directory", path, v)
  ELSE readdirValid(f, path, v, validPathOf(path, v))

list_directory(f, path) == list_directoryWith(f, path, validatePath(f, path))

moveDone(source, destination, vs, vd, validSourcePath, validDestPath, mv) ==
  Outcome(mv.fs,
    <<VEvent(source, vs), VEvent(destination, vd),
      FEvent("rename.from", validSourcePath,
             [ok |-> mv.ok, real |-> mv.from, effect |-> IF mv.ok THEN "rename" ELSE "none"]),
      FEvent("rename.to", validDestPath,
             [ok |-> mv.ok, real |-> mv.to, effect |-> IF mv.ok THEN "rename" ELSE "none"])>>,
    IF mv.ok THEN Response("move_file", FALSE, "none", destination)
    ELSE ErrorResponse("move_file", "IOError"))

moveValid(f, source, destination, vs, vd, validSourcePath, validDestPath) ==
  moveDone(source, destination, vs, vd, validSourcePath, validDestPath,
           rename(f, validSourcePath, validDestPath))

move_fileWith(f, source, destination, vs, vd) ==
  IF ~vs.ok THEN Rejected(f, "move_file", source, vs)
  ELSE IF ~vd.ok
    THEN Outcome(f, <<VEvent(source, vs), VEvent(destination, vd)>>,
                 ErrorResponse("move_file", vd.kind))
  ELSE moveValid(f, source, destination, vs, vd,
                 validPathOf(source, vs), validPathOf(destination, vd))

move_file(f, source, destination) ==
  move_fileWith(f, source, destination, validatePath(f, source), validatePath(f, destination))

searchDone(f, path, v, sr) ==
  Outcome(f, <<VEvent(path, v)>> \o sr.events,
          IF sr.ok THEN Response("search_files", FALSE, "none", sr.results)
          ELSE ErrorResponse("search_files", "IOError"))

search_filesWith(f, path, pattern, excludePatterns, v) ==
  IF ~v.ok THEN Rejected(f, "search_files", path, v)
  ELSE searchDone(f, path, v, searchFiles(f, validPathOf(path, v), pattern, excludePatterns))

search_files(f, path, pattern, excludePatterns) ==
  search_filesWith(f, path, pattern, excludePatterns, validatePath(f, path))

\* getFileStats(validPath)
statValid(f, path, v, validPath) ==
  Accessed("get_file_info", "stat", path, v, validPath, stat(f, validPath),
           stat(f, validPath).value)

get_file_infoWith(f, path, v) ==
  IF ~v.ok THEN Rejected(f, "get_file_info", path, v)
  ELSE statValid(f, path, v, validPathOf(path, v))

get_file_info(f, path) == get_file_infoWith(f, path, validatePath(f, path))

list_allowed_directories(f) ==
  Outcome(f, <<>>, Response("list_allowed_directories", FALSE, "none",
                            SetToSeq(allowedDirectories)))

(***************************************************************************)
(* CallTool load_folder                                                    *)
(***************************************************************************)
MAX_FILES == 30

\* the closure's variables and the events so far
Loading(fileCount, messages, events) ==
  [fileCount |-> fileCount, messages |-> messages, events |-> events]

Loaded(ok, error, st) == [ok |-> ok, error |-> error, st |-> st]

Logged(st, event) == Loading(st.fileCount, st.messages, Append(st.events, event))

\* fileCount++, fs.stat(fullPath), fs.readFile(fullPath), two messages pushed
fileLoaded(st, fullPath, fileStats, content) ==
  Loading(st.fileCount + 1,
          IF fileStats.ok /\ content.ok THEN st.messages + 2 ELSE st.messages,
          st.events \o <<FEvent("stat", fullPath, fileStats)>>
            \o (IF fileStats.ok THEN <<FEvent("readFile", fullPath, content)>> ELSE <<>>))

\* processDirectory(dirPath); ok is FALSE when it threw
RECURSIVE processDirectory(_, _, _), processWith(_, _, _, _),
          processEntries(_, _, _, _), processEntry(_, _, _, _, _)
processDirectory(f, dirPath, st) == processWith(f, dirPath, st, readdir(f, dirPath))

processWith(f, dirPath, st, rd) ==
  IF ~rd.ok THEN Loaded(FALSE, "IOError", Logged(st, FEvent("readdir", dirPath, rd)))
  ELSE processEntries(f, dirPath, rd.value, Logged(st, FEvent("readdir", dirPath, rd)))

\* for (const entry of entries): the limit is checked before each entry
processEntries(f, dirPath, entries, st) ==
  IF entries = <<>> THEN Loaded(TRUE, "none", st)
  ELSE IF st.fileCount >= MAX_FILES THEN Loaded(FALSE, "TooManyFiles", st)
  ELSE processEntries(f, dirPath, Tail(entries),
         processEntry(f, join(dirPath, Head(entries).name), Head(entries), st,
                      validatePath(f, join(dirPath, Head(entries).name))))

\* the try for one entry: whatever is thrown inside, also by the recursive
\* call, is caught and the loop continues with what was counted so far
processEntry(f, fullPath, entry, st, v) ==
  IF ~v.ok THEN Logged(st, VEvent(fullPath, v))
  ELSE IF entry.kind = "dir"
    THEN processDirectory(f, fullPath, Logged(st, VEvent(fullPath, v))).st
  ELSE IF entry.kind = "file"
    THEN fileLoaded(Logged(st, VEvent(fullPath, v)), fullPath,
                    stat(f, fullPath), readFile(f, fullPath))
  ELSE Logged(st, VEvent(fullPath, v))

loadDone(f, run) ==
  IF ~run.ok THEN Outcome(f, run.st.events, ErrorResponse("load_folder", run.error))
  ELSE IF run.st.messages = 0
    THEN Outcome(f, run.st.events, ErrorResponse("load_folder", "NoReadableFiles"))
  ELSE Outcome(f, run.st.events, Response("load_folder", FALSE, "none", run.st.messages \div 2))

loadValid(f, path, v, validPath, stats) ==
  IF ~stats.ok
    THEN Outcome(f, <<VEvent(path, v), FEvent("stat", validPath, stats)>>,
                 ErrorResponse("load_folder", "IOError"))
  ELSE IF stats.value # "dir"
    THEN Outcome(f, <<VEvent(path, v), FEvent("stat", validPath, stats)>>,
                 ErrorResponse("load_folder", "NotADirectory"))
  ELSE loadDone(f, processDirectory(f, validPath,
                     Loading(0, 0, <<VEvent(path, v), FEvent("stat", validPath, stats)>>)))

load_folderWith(f, path, v) ==
  IF ~v.ok THEN Rejected(f, "load_folder", path, v)
  ELSE loadValid(f, path, v, validPathOf(path, v), stat(f, validPathOf(path, v)))

load_folder(f, path) == load_folderWith(f, path, validatePath(f, path))

(***************************************************************************)
(* GetPrompt handler: load_folder.  Its processDirectory has no counter    *)
(* and no try around an entry: whatever is thrown ends the request.        *)
(***************************************************************************)
\* fs.stat(fullPath), fs.readFile(fullPath), two messages pushed
promptFile(st, fullPath, fileStats, content) ==
  IF ~fileStats.ok
    THEN Loaded(FALSE, "IOError", Logged(st, FEvent("stat", fullPath, fileStats)))
    ELSE Loaded(content.ok, IF content.ok THEN "none" ELSE "IOError",
                Loading(st.fileCount,
                        IF content.ok THEN st.messages + 2 ELSE st.messages,
                        st.events \o <<FEvent("stat", fullPath, fileStats),
                                       FEvent("readFile", fullPath, content)>>))

RECURSIVE promptDirectory(_, _, _), promptWith(_, _, _, _), promptEntries(_, _, _, _),
          promptNext(_, _, _, _), promptEntry(_, _, _, _, _)
promptDirectory(f, dirPath, st) == promptWith(f, dirPath, st, readdir(f, dirPath))

promptWith(f, dirPath, st, rd) ==
  IF ~rd.ok THEN Loaded(FALSE, "IOError", Logged(st, FEvent("readdir", dirPath, rd)))
  ELSE promptEntries(f, dirPath, rd.value, Logged(st, FEvent("readdir", dirPath, rd)))

\* for (const entry of entries)
promptEntries(f, dirPath, entries, st) ==
  IF entries = <<>> THEN Loaded(TRUE, "none", st)
  ELSE promptNext(f, dirPath, Tail(entries),
         promptEntry(f, join(dirPath, Head(entries).name), Head(entries), st,
                     validatePath(f, join(dirPath, Head(entries).name))))

\* the loop goes on only when the entry threw nothing
promptNext(f, dirPath, entries, done) ==
  IF ~done.ok THEN done ELSE promptEntries(f, dirPath, entries, done.st)

promptEntry(f, fullPath, entry, st, v) ==
  IF ~v.ok THEN Loaded(FALSE, v.kind, Logged(st, VEvent(fullPath, v)))
  ELSE IF entry.kind = "dir"
    THEN promptDirectory(f, fullPath, Logged(st, VEvent(fullPath, v)))
  ELSE IF entry.kind = "file"
    THEN promptFile(Logged(st, VEvent(fullPath, v)), fullPath,
                    stat(f, fullPath), readFile(f, fullPath))
  ELSE Loaded(TRUE, "none", Logged(st, VEvent(fullPath, v)))

promptDone(f, run) ==
  IF ~run.ok THEN Outcome(f, run.st.events, ErrorResponse("prompts/load_folder", run.error))
  ELSE IF run.st.messages = 0
    THEN Outcome(f, run.st.events, ErrorResponse("prompts/load_folder", "NoReadableFiles"))
  ELSE Outcome(f, run.st.events,
               Response("prompts/load_folder", FALSE, "none", run.st.messages \div 2))

promptValid(f, path, v, validPath, stats) ==
  IF ~stats.ok
    THEN Outcome(f, <<VEvent(path, v), FEvent("stat", validPath, stats)>>,
                 ErrorResponse("prompts/load_folder", "IOError"))
  ELSE IF stats.value # "dir"
    THEN Outcome(f, <<VEvent(path, v), FEvent("stat", validPath, stats)>>,
                 ErrorResponse("prompts/load_folder", "NotADirectory"))
  ELSE promptDone(f, promptDirectory(f, validPath,
                       Loading(0, 0, <<VEvent(path, v), FEvent("stat", validPath, stats)>>)))

prompt_load_folderWith(f, path, v) ==
  IF ~v.ok THEN Rejected(f, "prompts/load_folder", path, v)
  ELSE promptValid(f, path, v, validPathOf(path, v), stat(f, validPathOf(path, v)))

prompt_load_folder(f, path) == prompt_load_folderWith(f, path, validatePath(f, path))

(***************************************************************************)
(* The server: its initial filesystem and one action per tool              *)
(***************************************************************************)
pA == <<"/", "a">>
pAf == <<"/", "a", "/", "f">>
pAN == <<"/", "a", "/", "N">>
pAd == <<"/", "a", "/", "d">>
pAdf == <<"/", "a", "/", "d", "/", "f">>
pAj == <<"/", "a", "/", "j">>
pAjN == <<"/", "a", "/", "j", "/", "N">>
pAk == <<"/", "a", "/", "k">>
pAl == <<"/", "a", "/", "l">>
pAlf == <<"/", "a", "/", "l", "/", "f">>
pAlN == <<"/", "a", "/", "l", "/", "N">>
pAxN == <<"/", "a", "/", "x", "/", "N">>
pAB == <<"/", "a", "b">>
pABf == <<"/", "a", "b", "/", "f">>
pABN == <<"/", "a", "b", "/", "N">>
pB == <<"/", "b">>
pBf == <<"/", "b", "/", "f">>
pRel == <<"f">>
pDotDot == <<"/", "a", "/", ".", ".", "/", "b", "/", "f">>
pHome == <<"~", "/", "f">>

\* the file content at start
Text0 == <<" ", "x">>

\* /a is the allowed root; /a/k links to a file and /a/j to a directory inside
\* it, /a/l links to the directory /b outside it; /ab and /b are outside
Tree(c) ==
  (SL :> Dir) @@ (pA :> Dir) @@ (pAf :> File(c)) @@ (pAd :> Dir) @@ (pAdf :> File(c))
  @@ (pAj :> Link(pAd)) @@ (pAk :> Link(pAf)) @@ (pAl :> Link(pB))
  @@ (pAB :> Dir) @@ (pABf :> File(c)) @@ (pB :> Dir) @@ (pBf :> File(c))

NoRequest == [tool |-> "none"]
NoResponse == Response("none", FALSE, "none", <<>>)

Init ==
  /\ fs = Tree(Text0)
  /\ fsBefore = fs
  /\ request = NoRequest
  /\ trace = <<>>
  /\ result = NoResponse
  /\ calls = 0
  /\ pending = <<>>
  /\ canvasVersions = <<>>

\* the paths a request may name
Requests ==
  {pA, pAf, pAN, pAd, pAjN, pAk, pAl, pAlf, pAlN, pAxN, pAB, pABf, pBf, pRel, pDotDot, pHome}

PathLists == {<<pAf, pBf>>, <<pAk, pAN, pABf>>, <<>>}

MovePairs ==
  {<<pAf, pAN>>, <<pAf, pAdf>>, <<pAd, pAN>>, <<pAf, pBf>>, <<pBf, pAN>>,
   <<pAl, pAN>>, <<pABf, pAN>>, <<pAf, pABN>>, <<pAxN, pAN>>, <<pAf, pAd>>}

\* the directories (and one file) the listing, walking and stat tools are asked for
Folders == {pA, pAl, pAB, pAd, pBf}
SearchRoots == {pA, pAl, pAB}
EditPaths == {pAf, pAk, pAN, pABf, pAlf, pRel}
Patterns == {<<"f">>, <<"D">>}
ExcludeLists == {<<>>, << <<"d">> >>, << <<"*">> >>}

WriteTexts == {<<"w">>}

Edit(old, new) == [oldText |-> old, newText |-> new]

EditLists ==
  {<<Edit(<<"x">>, <<"y">>)>>,
   <<Edit(<<"x", " ">>, <<"y">>)>>,
   <<Edit(<<"z">>, <<"y">>)>>,
   <<Edit(<<"x">>, <<"y">>), Edit(<<"x">>, <<"z">>)>>}

\* a call is handled as a whole; the filesystem is changed by nothing else
Call(req, out) ==
  /\ calls < MaxCalls
  /\ fsBefore' = fs
  /\ request' = req
  /\ fs' = out.fs
  /\ trace' = out.trace
  /\ result' = out.result
  /\ calls' = calls + 1
  /\ UNCHANGED <<pending, canvasVersions>>

ReadFile ==
  \E p \in Requests : Call([tool |-> "read_file", path |-> p], read_file(fs, p))

ReadMultipleFiles ==
  \E ps \in PathLists :
    Call([tool |-> "read_multiple_files", paths |-> ps], read_multiple_files(fs, ps))

WriteFile ==
  \E p \in Requests, c \in WriteTexts :
    Call([tool |-> "write_file", path |-> p, content |-> c], write_file(fs, p, c))

EditRequest(p, es, dryRun) ==
  [tool |-> "edit_file", path |-> p, edits |-> es, dryRun |-> dryRun]

EditFile ==
  \E p \in EditPaths, es \in EditLists, dryRun \in BOOLEAN :
    Call(EditRequest(p, es, dryRun), edit_file(fs, p, es, dryRun))

CreateDirectory ==
  \E p \in Requests : Call([tool |-> "create_directory", path |-> p], create_directory(fs, p))

ListDirectory ==
  \E p \in Folders : Call([tool |-> "list_directory", path |-> p], list_directory(fs, p))

MoveFile ==
  \E m \in MovePairs :
    Call([tool |-> "move_file", source |-> m[1], destination |-> m[2]],
         move_file(fs, m[1], m[2]))

SearchFiles ==
  \E p \in SearchRoots, pat \in Patterns, ex \in ExcludeLists :
    Call([tool |-> "search_files", path |-> p, pattern |-> pat, excludePatterns |-> ex],
         search_files(fs, p, pat, ex))

GetFileInfo ==
  \E p \in Folders : Call([tool |-> "get_file_info", path |-> p], get_file_info(fs, p))

ListAllowedDirectories ==
  Call([tool |-> "list_allowed_directories"], list_allowed_directories(fs))

LoadFolder ==
  \E p \in Folders : Call([tool |-> "load_folder", path |-> p], load_folder(fs, p))

Next ==
  \/ ReadFile
  \/ ReadMultipleFiles
  \/ WriteFile
  \/ EditFile
  \/ CreateDirectory
  \/ ListDirectory
  \/ MoveFile
  \/ SearchFiles
  \/ GetFileInfo
  \/ ListAllowedDirectories
  \/ LoadFolder

Spec == Init /\ [][Next]_vars

(***************************************************************************)
(* The patch engine on its own: one edit_file call on /a/f, over every     *)
(* file content and every first edit up to the bounds.                     *)
(***************************************************************************)
Sigma == {" ", "x", "\n"}

Texts(n) == UNION { [1..k -> Sigma] : k \in 0..n }

NewTexts ==
  {<<>>, <<"y">>, <<" ", "y">>, <<" ", " ", "y">>, <<"y", "\n", " ", "y">>,
   <<" ", "y", "\n", " ", " ", "y">>}

\* the edits after the first one
EditTails == {<<>>, <<Edit(<<"y">>, <<"x">>)>>}

\* contents, old texts and new texts of two and three indented lines
BlockTexts ==
  {<<" ", " ", "x", "\n", " ", " ", " ", "x">>, <<" ", "x", "\n", " ", "x">>,
   <<"x", "\n", "x", "\n", "x", "\n", "x">>}

BlockOlds ==
  {<<"x", "\n", " ", "x">>, <<"x", "\n", " ", " ", "x">>, <<"x", " ", "\n", "x">>,
   <<"x", "\n", "\t", "x">>}

BlockNews ==
  {<<"y", "\n", " ", "y">>, <<"y", "\n", " ", " ", " ", "y">>, <<"y", "\n", "y">>,
   <<" ", "y", "\n", " ", "y", "\n", " ", " ", "y">>, <<"y", "\n", "\t", "\t", "y", "\n", "y">>}

\* contents and texts with runs of grave accents
TickTexts == {<<BT, BT, BT>>, <<BT, BT, BT, BT>>, <<BT, BT, "x", BT, "\n", BT>>}

TickOlds == {<<>>, <<BT>>, <<BT, BT, BT>>, <<"x">>}

TickNews == {<<>>, <<BT>>, <<BT, BT>>, <<"y">>}

\* contents and texts whose line endings are written as CRLF, and the same
\* with LF
CrlfTexts ==
  {<<"x", "\r", "\n", "x">>, <<" ", "x", "\r", "\n", "x", "\r", "\n">>,
   <<" ", "x", "\n", "x", "\r", "\n">>, <<" ", "x", "\n", "x", "\n">>}

CrlfOlds ==
  {<<"x", "\r", "\n", "x">>, <<"x", "\n", "x">>, <<"x", "\r", "\n">>, <<"x", "\n">>,
   <<"x", " ", "\r", "\n", "x">>, <<"x", " ", "\n", "x">>, <<"\r">>}

CrlfNews == {<<"y", "\r", "\n", "y">>, <<"y", "\n", "y">>, <<"y">>}

InitEdit ==
  /\ fs \in { Tree(c) : c \in Texts(MaxLen) \cup BlockTexts \cup TickTexts \cup CrlfTexts }
  /\ fsBefore = fs
  /\ request = NoRequest
  /\ trace = <<>>
  /\ result = NoResponse
  /\ calls = 0
  /\ pending = <<>>
  /\ canvasVersions = <<>>

EditOnce ==
  \E old \in Texts(MaxEditLen), new \in NewTexts, tail \in EditTails, dryRun \in BOOLEAN :
    /\ calls = 0
    /\ Call(EditRequest(pAf, <<Edit(old, new)>> \o tail, dryRun),
            edit_file(fs, pAf, <<Edit(old, new)>> \o tail, dryRun))

\* lists of edits that feed on one another
EditSeqs ==
  {<<Edit(<<"x">>, <<"y">>), Edit(<<"y">>, <<"z">>)>>,
   <<Edit(<<"x">>, <<"y">>), Edit(<<"x">>, <<"z">>)>>,
   <<Edit(<<"x">>, <<"y">>), Edit(<<"y">>, <<"z">>), Edit(<<"z">>, <<"x">>)>>,
   <<Edit(<<" ">>, <<>>), Edit(<<"x", "x">>, <<"y">>)>>,
   <<Edit(<<"\n">>, <<" ">>), Edit(<<"x", " ", "x">>, <<"y">>)>>,
   <<Edit(<<"z">>, <<"y">>), Edit(<<"x">>, <<"y">>)>>,
   <<Edit(<<"x">>, <<"y">>), Edit(<<"y">>, <<"z">>), Edit(<<"x">>, <<"z">>)>>,
   <<>>}

EditMany ==
  \E es \in EditSeqs, dryRun \in BOOLEAN :
    /\ calls = 0
    /\ Call(EditRequest(pAf, es, dryRun), edit_file(fs, pAf, es, dryRun))

\* new texts in which a dollar sign is followed by another character
DollarTexts ==
  {<<"$", "&">>, <<"$", "$">>, <<"$", "'">>, <<"$", BT>>, <<"$", "x">>, <<"y", "$">>}

EditDollar ==
  \E old \in Texts(1), new \in DollarTexts :
    /\ calls = 0
    /\ Call(EditRequest(pAf, <<Edit(old, new)>>, FALSE),
            edit_file(fs, pAf, <<Edit(old, new)>>, FALSE))

EditBlock ==
  \E old \in BlockOlds, new \in BlockNews :
    /\ calls = 0
    /\ Call(EditRequest(pAf, <<Edit(old, new)>>, FALSE),
            edit_file(fs, pAf, <<Edit(old, new)>>, FALSE))

EditTicks ==
  \E old \in TickOlds, new \in TickNews, dryRun \in BOOLEAN :
    /\ calls = 0
    /\ Call(EditRequest(pAf, <<Edit(old, new)>>, dryRun),
            edit_file(fs, pAf, <<Edit(old, new)>>, dryRun))

EditCrlf ==
  \E old \in CrlfOlds, new \in CrlfNews, dryRun \in BOOLEAN :
    /\ calls = 0
    /\ Call(EditRequest(pAf, <<Edit(old, new)>>, dryRun),
            edit_file(fs, pAf, <<Edit(old, new)>>, dryRun))

NextEdit == EditOnce \/ EditMany \/ EditDollar \/ EditBlock \/ EditTicks \/ EditCrlf

SpecEdit == InitEdit /\ [][NextEdit]_vars

(***************************************************************************)
(* The search on its own: one search_files call over every tree of         *)
(* directories up to MaxDepth deep below /a, a file f in each of them.     *)
(***************************************************************************)
MaxDepth == 2

Names == {<<"d">>, <<"e">>}

RECURSIVE DirsAt(_)
DirsAt(n) ==
  IF n = 0 THEN {pA} ELSE { q \o SL \o nm : q \in DirsAt(n - 1), nm \in Names }

AllDirs == UNION { DirsAt(n) : n \in 1..MaxDepth }

\* the sets of directories in which every directory has its parent
DirSets == { S \in SUBSET AllDirs : \A q \in S : dirname(q) \in S \cup {pA} }

\* /a/d/e, where it exists, may not be read
pAde == <<"/", "a", "/", "d", "/", "e">>

TreeOf(S) ==
  [q \in S \cup {pA} |-> IF q = pAde THEN Unlistable ELSE Dir]
  @@ [q \in { d \o SL \o <<"f">> : d \in S \cup {pA} } |-> File(Text0)]
  @@ (pAl :> Link(pB)) @@ (SL :> Dir) @@ (pB :> Dir) @@ (pBf :> File(Text0))

SearchPatterns == {<<"f">>, <<"D">>}

SearchExcludes == {<<>>, << <<"e">> >>, << <<"d">>, <<"e">> >>, << <<"*", "/", "d">> >>}

InitSearch ==
  /\ fs \in { TreeOf(S) : S \in DirSets }
  /\ fsBefore = fs
  /\ request = NoRequest
  /\ trace = <<>>
  /\ result = NoResponse
  /\ calls = 0
  /\ pending = <<>>
  /\ canvasVersions = <<>>

SearchOnce ==
  \E p \in {pA, pAd}, pat \in SearchPatterns, ex \in SearchExcludes :
    /\ calls = 0
    /\ Call([tool |-> "search_files", path |-> p, pattern |-> pat, excludePatterns |-> ex],
            search_files(fs, p, pat, ex))

SpecSearch == InitSearch /\ [][SearchOnce]_vars

(***************************************************************************)
(* load_folder on its own: one request, as tool or as prompt, on /a with   *)
(* some files in it and up to MaxFiles files in its directory /a/d.        *)
(***************************************************************************)
MaxFiles == 31

Digit == <<"0", "1", "2", "3", "4", "5", "6", "7", "8", "9">>

fileName(k) == <<"f", Digit[(k \div 10) + 1], Digit[(k % 10) + 1]>>

FilesIn(dir, n) == [q \in { dir \o SL \o fileName(k) : k \in 1..n } |-> File(Text0)]

\* the numbers of files in /a itself
RootCounts == {0, 1, MAX_FILES, MAX_FILES + 1}

\* n files in /a and, when m > 0, the directory /a/d with m files
TreeLoad(n, m) ==
  (SL :> Dir) @@ (pA :> Dir) @@ FilesIn(pA, n)
  @@ (IF m > 0 THEN (pAd :> Dir) @@ FilesIn(pAd, m) ELSE << >>)

InitLoad ==
  /\ fs \in { TreeLoad(n, m) : n \in RootCounts, m \in 0..MaxFiles }
  /\ fsBefore = fs
  /\ request = NoRequest
  /\ trace = <<>>
  /\ result = NoResponse
  /\ calls = 0
  /\ pending = <<>>
  /\ canvasVersions = <<>>

LoadTool ==
  calls = 0 /\ Call([tool |-> "load_folder", path |-> pA], load_folder(fs, pA))

LoadPrompt ==
  calls = 0 /\ Call([tool |-> "prompts/load_folder", path |-> pA], prompt_load_folder(fs, pA))

NextLoad == LoadTool \/ LoadPrompt

SpecLoad == InitLoad /\ [][NextLoad]_vars

(***************************************************************************)
(* The search one entry at a time.  Each await of search (readdir,         *)
(* validatePath, the recursive call) gives way to whatever else runs, so   *)
(* the walk is a sequence of steps: pending holds the directories being    *)
(* listed, innermost last, each with the entries it has yet to process.    *)
(***************************************************************************)
MaxStack == 4        \* directories being listed at once

Frame(dir, entries) == [dir |-> dir, entries |-> entries]

Searching(rootPath, stack, results) ==
  [rootPath |-> rootPath, stack |-> stack, results |-> results]

\* C22 mutant: the entry is processed whatever validatePath said
entrySkippedWhenExcluded(v, rootPath, fullPath, excludePatterns) ==
  shouldExclude(rootPath, fullPath, excludePatterns)

\* the entry is left by `continue`: validatePath threw into the catch, or the
\* entry is excluded
entrySkipped(v, rootPath, fullPath, excludePatterns) ==
  ~v.ok \/ shouldExclude(rootPath, fullPath, excludePatterns)

\* if (name matches) results.push(fullPath)
pushed(results, entry, fullPath, pattern) ==
  IF nameMatches(entry.name, pattern) THEN results \o <<fullPath>> ELSE results

\* searchFiles up to the first readdir: validatePath(args.path), readdir(rootPath)
searchBegun(path, v, validPath, rd) ==
  /\ IF ~v.ok
       THEN /\ trace' = <<VEvent(path, v)>>
            /\ result' = ErrorResponse("search_files", v.kind)
            /\ calls' = calls + 1
            /\ pending' = <<>>
     ELSE IF ~rd.ok
       THEN /\ trace' = <<VEvent(path, v), FEvent("readdir", validPath, rd)>>
            /\ result' = ErrorResponse("search_files", "IOError")
            /\ calls' = calls + 1
            /\ pending' = <<>>
     ELSE /\ trace' = <<VEvent(path, v), FEvent("readdir", validPath, rd)>>
          /\ pending' = <<Searching(validPath, <<Frame(validPath, rd.value)>>, <<>>)>>
          /\ UNCHANGED <<result, calls>>

\* the end of a for loop: search(currentPath) returns to the loop it was
\* called from, or searchFiles returns results
searchReturned(w, below) ==
  /\ IF below = <<>>
       THEN /\ pending' = <<>>
            /\ result' = Response("search_files", FALSE, "none", w.results)
            /\ calls' = calls + 1
       ELSE /\ pending' = <<[w EXCEPT !.stack = below]>>
            /\ UNCHANGED <<result, calls>>
  /\ UNCHANGED trace

\* one iteration of the for loop, for the entry at fullPath; rest is the stack
\* with this entry done
searchStepped(w, rest, entry, fullPath, v, rd) ==
  /\ IF entrySkipped(v, w.rootPath, fullPath, request.excludePatterns)
       THEN /\ pending' = <<[w EXCEPT !.stack = rest]>>
            /\ trace' = trace \o <<VEvent(fullPath, v)>>
     ELSE IF entry.kind # "dir"
       THEN /\ pending' = <<[w EXCEPT !.stack = rest,
                                      !.results = pushed(@, entry, fullPath, request.pattern)]>>
            /\ trace' = trace \o <<VEvent(fullPath, v)>>
     ELSE IF ~rd.ok
       THEN /\ pending' = <<[w EXCEPT !.stack = rest,
                                      !.results = pushed(@, entry, fullPath, request.pattern)]>>
            /\ trace' = trace \o <<VEvent(fullPath, v), FEvent("readdir", fullPath, rd)>>
     ELSE /\ Len(w.stack) < MaxStack
          /\ pending' = <<[w EXCEPT !.stack = rest \o <<Frame(fullPath, rd.value)>>,
                                    !.results = pushed(@, entry, fullPath, request.pattern)]>>
          /\ trace' = trace \o <<VEvent(fullPath, v), FEvent("readdir", fullPath, rd)>>
  /\ UNCHANGED <<result, calls>>

searchStep(w, top, below) ==
  IF top.entries = <<>> THEN searchReturned(w, below)
  ELSE \E fullPath \in {join(top.dir, Head(top.entries).name)} :
         \E v \in {validatePath(fs, fullPath)}, rd \in {readdir(fs, fullPath)} :
           searchStepped(w, below \o <<Frame(top.dir, Tail(top.entries))>>,
                         Head(top.entries), fullPath, v, rd)

pAdu == <<"/", "a", "/", "d", "/", "u">>
pAp == <<"/", "a", "/", "p">>
pAq == <<"/", "a", "/", "q">>

\* /a with two directories below one another, and some of: a link to an
\* ancestor, two links to one another, a link out of /a
WalkLinks ==
  { (pAdu :> Link(pA)), (pAp :> Link(pAq)) @@ (pAq :> Link(pAp)), (pAl :> Link(pB)) }

RECURSIVE Merged(_)
Merged(fns) ==
  IF fns = {} THEN <<>>
  ELSE LET g == CHOOSE h \in fns : TRUE IN g @@ Merged(fns \ {g})

WalkTree(L) ==
  Merged(L) @@ (SL :> Dir) @@ (pA :> Dir) @@ (pAf :> File(Text0)) @@ (pAd :> Dir)
  @@ (pAdf :> File(Text0)) @@ (pAde :> Dir) @@ (pAde \o SL \o <<"f">> :> File(Text0))
  @@ (pB :> Dir) @@ (pBf :> File(Text0))

WalkPatterns == {<<>>, <<"D">>}
WalkExcludes == {<<>>, << <<"e">> >>}

InitWalk ==
  /\ fs \in { WalkTree(L) : L \in SUBSET WalkLinks }
  /\ fsBefore = fs
  /\ request = NoRequest
  /\ trace = <<>>
  /\ result = NoResponse
  /\ calls = 0
  /\ pending = <<>>
  /\ canvasVersions = <<>>

WalkBegin ==
  \E p \in {pA, pAd}, pat \in WalkPatterns, ex \in WalkExcludes :
    /\ calls = 0 /\ pending = <<>> /\ request = NoRequest
    /\ request' = [tool |-> "search_files", path |-> p, pattern |-> pat,
                   excludePatterns |-> ex]
    /\ fsBefore' = fs
    /\ \E v \in {validatePath(fs, p)} :
         \E rd \in {readdir(fs, validPathOf(p, v))} :
           searchBegun(p, v, validPathOf(p, v), rd)
    /\ UNCHANGED <<fs, canvasVersions>>

WalkStep ==
  /\ pending # <<>>
  /\ request.tool = "search_files"
  /\ \E w \in {pending[1]} :
       searchStep(w, w.stack[Len(w.stack)], SubSeq(w.stack, 1, Len(w.stack) - 1))
  /\ UNCHANGED <<fs, fsBefore, request, canvasVersions>>

\* another process replaces the directory /a/d by a link to /b while the walk
\* is going on
Relink ==
  /\ pending # <<>>
  /\ request.tool = "search_files"
  /\ fs[pAd] = Dir
  /\ fs' = [q \in { r \in DOMAIN fs : r = pAd \/ ~Within(r, pAd) } |->
              IF q = pAd THEN Link(pB) ELSE fs[q]]
  /\ UNCHANGED <<fsBefore, request, trace, result, calls, pending, canvasVersions>>

NextWalk == WalkBegin \/ WalkStep

\* a step of the walk can be taken: the call has yet to arrive, or a
\* directory is being listed and one more may be
WalkEnabled ==
  \/ calls = 0 /\ request = NoRequest
  \/ pending # <<>> /\ Len(pending[1].stack) < MaxStack

\* the handler awaits the walk and the event loop resumes it after each
\* await: weak fairness of NextWalk, with the states in which a step is
\* certain to be enabled written out
SpecWalkFair ==
  InitWalk /\ [][NextWalk]_vars /\ (<>[]WalkEnabled => []<><<NextWalk>>_vars)

SpecWalkEnv == InitWalk /\ [][NextWalk \/ Relink]_vars

(***************************************************************************)
(* Two edit_file calls in flight.  The handler is async and the server     *)
(* does not wait for one call to return before it takes the next, so the   *)
(* calls interleave at their awaits: validatePath, fs.readFile and         *)
(* fs.writeFile.  pending holds, for each call, what it has between them.  *)
(***************************************************************************)
\* a call that has validated its path and is to read the file
Reading(path, edits) ==
  [pc |-> "reading", path |-> path, edits |-> edits, content |-> <<>>,
   modifiedContent |-> <<>>, wrote |-> 0, response |-> NoResponse]

\* the call after `content = normalizeLineEndings(await fs.readFile(...))`,
\* the loop over the edits and the diff: about to write, or failed
editRead(c, rd, content, r) ==
  IF ~rd.ok
    THEN [c EXCEPT !.pc = "done", !.response = ErrorResponse("edit_file", "IOError")]
  ELSE IF ~r.ok
    THEN [c EXCEPT !.pc = "done", !.content = content,
                   !.response = Response("edit_file", TRUE, "EditNotFound", r.failed)]
  ELSE [c EXCEPT !.pc = "writing", !.content = content, !.modifiedContent = r.content,
                 !.response = Response("edit_file", FALSE, "none",
                                formatDiff(createUnifiedDiff(content, r.content, c.path)))]

\* C25 mutant: the edits are applied anew to the file as it is when written
editWrittenAnew(f, c) ==
  writeFile(f, c.path,
            applyEdits(normalizeLineEndings(readFile(f, c.path).value), c.edits).content)

\* await fs.writeFile(filePath, modifiedContent, 'utf-8')
editWritten(f, c) == writeFile(f, c.path, c.modifiedContent)

\* the call after its write: it returns the diff it made when it read
editDone(c, wr, at) ==
  IF ~wr.ok
    THEN [c EXCEPT !.pc = "done", !.wrote = at,
                   !.response = ErrorResponse("edit_file", "IOError")]
    ELSE [c EXCEPT !.pc = "done", !.wrote = at]

RaceText == <<"x", "\n", "y">>

RaceEdits ==
  {<<Edit(<<"x">>, <<"z">>)>>, <<Edit(<<"y">>, <<"z">>)>>, <<Edit(<<"z">>, <<"x">>)>>,
   <<Edit(<<"x">>, <<"y">>), Edit(<<"y">>, <<"x">>)>>}

InitRace ==
  /\ fs = Tree(RaceText)
  /\ fsBefore = fs
  /\ request = NoRequest
  /\ trace = <<>>
  /\ result = NoResponse
  /\ calls = 0
  /\ pending = <<>>
  /\ canvasVersions = <<>>

\* a call arrives: const validPath = await validatePath(parsed.data.path)
RaceArrive ==
  \E p \in {pAf, pAk}, es \in RaceEdits :
    /\ Len(pending) < 2
    /\ request' = EditRequest(p, es, FALSE)
    /\ \E v \in {validatePath(fs, p)} :
         /\ trace' = trace \o <<VEvent(p, v)>>
         /\ pending' = Append(pending,
                         IF v.ok THEN Reading(validPathOf(p, v), es)
                         ELSE [Reading(p, es) EXCEPT
                                 !.pc = "done",
                                 !.response = ErrorResponse("edit_file", v.kind)])
         /\ calls' = IF v.ok THEN calls ELSE calls + 1
         /\ result' = IF v.ok THEN result ELSE ErrorResponse("edit_file", v.kind)
    /\ UNCHANGED <<fs, fsBefore, canvasVersions>>

\* the read of call i completes and the call runs on to its write
RaceRead ==
  \E i \in DOMAIN pending :
    /\ pending[i].pc = "reading"
    /\ \E rd \in {readFile(fs, pending[i].path)} :
         \E c \in {editRead(pending[i], rd, normalizeLineEndings(rd.value),
                            applyEdits(normalizeLineEndings(rd.value), pending[i].edits))} :
           /\ pending' = [pending EXCEPT ![i] = c]
           /\ trace' = trace \o <<FEvent("readFile", pending[i].path, rd)>>
           /\ calls' = IF c.pc = "done" THEN calls + 1 ELSE calls
           /\ result' = IF c.pc = "done" THEN c.response ELSE result
    /\ UNCHANGED <<fs, fsBefore, request, canvasVersions>>

\* the write of call i completes and the call returns
RaceWrite ==
  \E i \in DOMAIN pending :
    /\ pending[i].pc = "writing"
    /\ \E wr \in {editWritten(fs, pending[i])} :
         \E c \in {editDone(pending[i], wr, Len(trace) + 1)} :
           /\ fs' = wr.fs
           /\ pending' = [pending EXCEPT ![i] = c]
           /\ trace' = trace \o <<FEvent("writeFile", pending[i].path, wr)>>
           /\ calls' = calls + 1
           /\ result' = c.response
    /\ UNCHANGED <<fsBefore, request, canvasVersions>>

NextRace == RaceArrive \/ RaceRead \/ RaceWrite

SpecRace == InitRace /\ [][NextRace]_vars

(***************************************************************************)
(* CanvasManager: SVG canvases kept as one file per version.               *)
(***************************************************************************)
MaxAdds == 2         \* addElement calls in one behaviour

Quote == "\""

\* \d and \w of the regular expressions
IsDigit(c) == \E k \in 1..10 : Digit[k] = c

WordChars ==
  {"a", "b", "c", "d", "e", "f", "g", "h", "i", "j", "k", "l", "m", "n", "o", "p", "q", "r", "s", "t", "u", "v", "w", "x", "y", "z",
   "A", "B", "C", "D", "E", "F", "G", "H", "I", "J", "K", "L", "M", "N", "O", "P", "Q", "R", "S", "T", "U", "V", "W", "X", "Y", "Z", "_"}

IsWord(c) == c \in WordChars \/ IsDigit(c)

\* `${n}` of a non-negative integer, and parseInt of a run of digits
RECURSIVE toString(_)
toString(n) ==
  IF n < 10 THEN <<Digit[n + 1]>> ELSE toString(n \div 10) \o <<Digit[(n % 10) + 1]>>

RECURSIVE parseInt(_)
parseInt(ds) ==
  IF ds = <<>> THEN 0
  ELSE 10 * parseInt(SubSeq(ds, 1, Len(ds) - 1))
       + (CHOOSE k \in 0..9 : Digit[k + 1] = ds[Len(ds)])

\* the least index from i on at which Test holds (0: none)
least(hits) == IF hits = {} THEN 0 ELSE CHOOSE j \in hits : \A k \in hits : j <= k

\* the index after the longest run of digits, and of word characters, from i
digitsEnd(s, i) == least({j \in i..(Len(s) + 1) : j > Len(s) \/ ~IsDigit(s[j])})

wordEnd(s, i) == least({j \in i..(Len(s) + 1) : j > Len(s) \/ ~IsWord(s[j])})

\* the first index from i at which c stands (0: none)
firstFrom(s, i, c) == least({j \in i..Len(s) : s[j] = c})

\* an element as addElement is given it; hasContent is content !== undefined
Element(type, attributes, hasContent, content) ==
  [type |-> type, attributes |-> attributes, hasContent |-> hasContent, content |-> content]

Attr(key, value) == [key |-> key, value |-> value]

\* Object.entries(elem.attributes).map(([key, value]) => `${key}="${value}"`).join(' ')
RECURSIVE attrsOf(_)
attrsOf(attributes) ==
  IF attributes = <<>> THEN <<>>
  ELSE attributes[1].key \o <<"=", Quote>> \o attributes[1].value \o <<Quote>>
       \o (IF Len(attributes) = 1 THEN <<>> ELSE <<" ">> \o attrsOf(Tail(attributes)))

\* one entry of elementStrings
elementString(elem) ==
  IF elem.type = <<"t", "e", "x", "t">> /\ elem.hasContent
    THEN <<"<">> \o elem.type \o <<" ">> \o attrsOf(elem.attributes) \o <<">">>
         \o elem.content \o <<"<", "/">> \o elem.type \o <<">">>
    ELSE <<"<">> \o elem.type \o <<" ">> \o attrsOf(elem.attributes) \o <<"/", ">">>

\* elementStrings.join('\n  ')
RECURSIVE joinElements(_)
joinElements(elements) ==
  IF elements = <<>> THEN <<>>
  ELSE elementString(elements[1])
       \o (IF Len(elements) = 1 THEN <<>>
           ELSE <<"\n", " ", " ">> \o joinElements(Tail(elements)))

XmlDeclaration ==
  <<"<", "?", "x", "m", "l", " ", "v", "e", "r", "s", "i", "o", "n", "=", "\"", "1",
    ".", "0", "\"", " ", "e", "n", "c", "o", "d", "i", "n", "g", "=", "\"", "U", "T",
    "F", "-", "8", "\"", "?", ">">>

SvgNamespace ==
  <<" ", "x", "m", "l", "n", "s", "=", "\"", "h", "t", "t", "p", ":", "/", "/", "w",
    "w", "w", ".", "w", "3", ".", "o", "r", "g", "/", "2", "0", "0", "0", "/", "s",
    "v", "g", "\"", ">">>

createSVGContent(width, height, elements) ==
  XmlDeclaration \o <<"\n">>
  \o <<"<", "s", "v", "g", " ", "w", "i", "d", "t", "h", "=", Quote>> \o toString(width)
  \o <<Quote, " ", "h", "e", "i", "g", "h", "t", "=", Quote>> \o toString(height)
  \o <<Quote>> \o SvgNamespace
  \o <<"\n", " ", " ">> \o joinElements(elements) \o <<"\n", "<", "/", "s", "v", "g", ">">>

\* /name="(\d+)"/ matches at i
numberAt(content, name, i) ==
  /\ occursAt(content, name \o <<"=", Quote>>, i)
  /\ digitsEnd(content, i + Len(name) + 2) > i + Len(name) + 2
  /\ digitsEnd(content, i + Len(name) + 2) <= Len(content)
  /\ content[digitsEnd(content, i + Len(name) + 2)] = Quote

\* content.match(/name="(\d+)"/): the digits of the first match (<<>>: no match)
numberMatchAt(content, name, i) ==
  IF i = 0 THEN <<>>
  ELSE SubSeq(content, i + Len(name) + 2, digitsEnd(content, i + Len(name) + 2) - 1)

numberMatch(content, name) ==
  numberMatchAt(content, name, least({i \in 1..Len(content) : numberAt(content, name, i)}))

ElementTypes ==
  {<<"r", "e", "c", "t">>, <<"c", "i", "r", "c", "l", "e">>, <<"l", "i", "n", "e">>,
   <<"t", "e", "x", "t">>}

\* where a match of /<(rect|circle|line|text)[^>]*\/>/ that starts at i ends
\* (0: no match starts at i): the first > after the type, if a / stands
\* before it
elementEndWith(content, i, type, close) ==
  IF close > 0 /\ close - 1 >= i + 1 + Len(type) /\ content[close - 1] = "/"
    THEN close ELSE 0

elementEnd(content, i) ==
  IF \E t \in ElementTypes : occursAt(content, <<"<">> \o t, i)
    THEN elementEndWith(content, i,
                        CHOOSE t \in ElementTypes : occursAt(content, <<"<">> \o t, i),
                        firstFrom(content,
                                  i + 1 + Len(CHOOSE t \in ElementTypes :
                                                occursAt(content, <<"<">> \o t, i)),
                                  ">"))
    ELSE 0

\* content.match(/<(rect|circle|line|text)[^>]*\/>/g) || [], from index i on
RECURSIVE elementMatches(_, _)
elementMatchesAt(content, start) ==
  IF start = 0 THEN <<>>
  ELSE <<SubSeq(content, start, elementEnd(content, start))>>
       \o elementMatches(content, elementEnd(content, start) + 1)

elementMatches(content, i) ==
  elementMatchesAt(content, least({j \in i..Len(content) : elementEnd(content, j) > 0}))

\* attributes[match[1]] = match[2]: a key that is there keeps its place
setAttribute(attributes, key, value) ==
  IF \E k \in DOMAIN attributes : attributes[k].key = key
    THEN [k \in DOMAIN attributes |->
            IF attributes[k].key = key THEN Attr(key, value) ELSE attributes[k]]
    ELSE Append(attributes, Attr(key, value))

\* /(\w+)="([^"]*)"/ matches at i
attrAt(elem, i) ==
  /\ IsWord(elem[i])
  /\ occursAt(elem, <<"=", Quote>>, wordEnd(elem, i))
  /\ firstFrom(elem, wordEnd(elem, i) + 2, Quote) > 0

\* elem.matchAll(/(\w+)="([^"]*)"/g), from index i on, into attributes
RECURSIVE attrMatches(_, _, _)
attrMatchesAt(elem, start, attributes) ==
  IF start = 0 THEN attributes
  ELSE attrMatches(elem, firstFrom(elem, wordEnd(elem, start) + 2, Quote) + 1,
                   setAttribute(attributes, SubSeq(elem, start, wordEnd(elem, start) - 1),
                                SubSeq(elem, wordEnd(elem, start) + 2,
                                       firstFrom(elem, wordEnd(elem, start) + 2, Quote) - 1)))

attrMatches(elem, i, attributes) ==
  attrMatchesAt(elem, least({j \in i..Len(elem) : attrAt(elem, j)}), attributes)

\* one element read back: elem.match(/^<(\w+)/) and its attributes; no content
parsedElement(elem) ==
  Element(SubSeq(elem, 2, wordEnd(elem, 2) - 1), attrMatches(elem, 1, <<>>),
          FALSE, <<>>)

parsedElements(matches) == [k \in DOMAIN matches |-> parsedElement(matches[k])]

outputDir == <<"/", "t">>

\* path.join(this.outputDir, `${canvasId}_v${version}.svg`)
getFilePath(canvasId, version) ==
  join(outputDir, canvasId \o <<"_", "v">> \o toString(version) \o <<".", "s", "v", "g">>)

\* a request handled by the canvas manager, and how it ended
CanvasEvent(op, canvasId, element, ok) ==
  [ev |-> "canvas", op |-> op, canvasId |-> canvasId, element |-> element, ok |-> ok]

CanvasOut(f, versions, ok, error, version) ==
  [fs |-> f, versions |-> versions, ok |-> ok, error |-> error, version |-> version]

\* createCanvas(params)
createCanvasWith(f, versions, canvasId, wr) ==
  IF ~wr.ok THEN CanvasOut(f, (canvasId :> 1) @@ versions, FALSE, "IOError", 1)
  ELSE CanvasOut(wr.fs, (canvasId :> 1) @@ versions, TRUE, "none", 1)

createCanvas(f, versions, canvasId, width, height) ==
  createCanvasWith(f, versions, canvasId,
                   writeFile(f, getFilePath(canvasId, 1),
                             createSVGContent(width, height, <<>>)))

\* addElement from the new version on: set the version, write the new file
addWritten(f, versions, canvasId, newVersion, wr) ==
  IF ~wr.ok
    THEN CanvasOut(f, (canvasId :> newVersion) @@ versions, FALSE, "IOError", newVersion)
    ELSE CanvasOut(wr.fs, (canvasId :> newVersion) @@ versions, TRUE, "none", newVersion)

\* addElement once the current file is read
addParsed(f, versions, canvasId, element, currentVersion, content, widthMatch, heightMatch) ==
  IF widthMatch = <<>> \/ heightMatch = <<>>
    THEN CanvasOut(f, versions, FALSE, "Invalid SVG format", currentVersion)
    ELSE addWritten(f, versions, canvasId, currentVersion + 1,
                    writeFile(f, getFilePath(canvasId, currentVersion + 1),
                              createSVGContent(
                                parseInt(widthMatch), parseInt(heightMatch),
                                Append(parsedElements(elementMatches(content, 1)), element))))

addRead(f, versions, canvasId, element, currentVersion, rd) ==
  IF ~rd.ok THEN CanvasOut(f, versions, FALSE, "IOError", currentVersion)
  ELSE addParsed(f, versions, canvasId, element, currentVersion, rd.value,
                 numberMatch(rd.value, <<"w", "i", "d", "t", "h">>),
                 numberMatch(rd.value, <<"h", "e", "i", "g", "h", "t">>))

\* addElement(params)
addElement(f, versions, canvasId, element) ==
  IF canvasId \notin DOMAIN versions
    THEN CanvasOut(f, versions, FALSE, "Canvas not found", 0)
    ELSE addRead(f, versions, canvasId, element, versions[canvasId],
                 readFile(f, getFilePath(canvasId, versions[canvasId])))

CanvasIds == {<<"c">>, <<"d">>}

CanvasSizes == {<<1, 1>>, <<10, 2>>}

Rect == <<"r", "e", "c", "t">>
TextType == <<"t", "e", "x", "t">>

Elements ==
  {Element(Rect, <<Attr(<<"x">>, <<"1">>)>>, FALSE, <<>>),
   Element(<<"c", "i", "r", "c", "l", "e">>, <<Attr(<<"r">>, <<"2">>)>>, FALSE, <<>>),
   Element(<<"l", "i", "n", "e">>,
           <<Attr(<<"x", "1">>, <<"0">>), Attr(<<"y", "1">>, <<"1">>)>>, FALSE, <<>>),
   Element(TextType, <<Attr(<<"x">>, <<"1">>)>>, TRUE, <<"a">>),
   Element(TextType, <<Attr(<<"x">>, <<"1">>)>>, FALSE, <<>>)}

InitCanvas ==
  /\ fs = (SL :> Dir) @@ (outputDir :> Dir)
  /\ fsBefore = fs
  /\ request = NoRequest
  /\ trace = <<>>
  /\ result = NoResponse
  /\ calls = 0
  /\ pending = <<>>
  /\ canvasVersions = <<>>

\* what a handled request leaves; in this specification trace keeps every
\* request handled so far
CanvasCall(req, event, out) ==
  /\ fsBefore' = fs
  /\ request' = req
  /\ fs' = out.fs
  /\ canvasVersions' = out.versions
  /\ trace' = Append(trace, [event EXCEPT !.ok = out.ok])
  /\ result' = Response(req.tool, ~out.ok, out.error, toString(out.version))
  /\ calls' = calls + 1
  /\ UNCHANGED pending

\* generateCanvasId: 16 random bytes, taken to be an id not in use
CreateCanvas ==
  \E id \in CanvasIds, size \in CanvasSizes :
    /\ canvasVersions = <<>>
    /\ \E out \in {createCanvas(fs, canvasVersions, id, size[1], size[2])} :
         CanvasCall([tool |-> "create_canvas", width |-> size[1], height |-> size[2]],
                    CanvasEvent("createCanvas", id, Element(<<>>, <<>>, FALSE, <<>>), TRUE),
                    out)

AddElement ==
  \E id \in CanvasIds, element \in Elements :
    /\ canvasVersions # <<>>
    /\ calls <= MaxAdds
    /\ \E out \in {addElement(fs, canvasVersions, id, element)} :
         CanvasCall([tool |-> "add_element", canvasId |-> id, element |-> element],
                    CanvasEvent("addElement", id, element, TRUE), out)

NextCanvas == CreateCanvas \/ AddElement

SpecCanvas == InitCanvas /\ [][NextCanvas]_vars

(***************************************************************************)
(* Properties of the path guard and of the handlers                        *)
(***************************************************************************)
\* the configured roots as given, in their own letter case
Roots == { resolve(expandHome(args[i])) : i \in 1..Len(args) }

\* p is an allowed root or lies beneath one, by whole segments
InsideRoots(p) == \E r \in Roots : Within(p, r)

ValidateEvents == { trace[k] : k \in { i \in DOMAIN trace : trace[i].ev = "validate" } }
FsEvents == { trace[k] : k \in { i \in DOMAIN trace : trace[i].ev = "fs" } }

Mutations == {"create", "modify", "rename"}

\* C1: no tool call reads, creates, modifies or renames anything whose real
\* location is outside every allowed root.
C1_SandboxSafety ==
  \A e \in FsEvents : (e.ok /\ e.kind # "none") => InsideRoots(e.real)

\* C2: validate of a path whose absolute form is outside every allowed root
\* fails with AccessDenied.
C2_OutsideDenied ==
  \A e \in ValidateEvents : ~InsideRoots(e.real) => (~e.ok /\ e.kind = "AccessDenied")

\* the entry at p is a symbolic link that resolves, to a place outside the roots
EscapingLink(f, p) ==
  /\ p \in DOMAIN f
  /\ f[p].kind = "link"
  /\ realpath(f, p).ok
  /\ ~InsideRoots(realpath(f, p).path)

\* C3: validate of a symbolic link that lies inside an allowed root and
\* resolves outside every root fails with AccessDenied.
C3_SymlinkEscapeDenied ==
  \A e \in ValidateEvents :
    (InsideRoots(e.real) /\ EscapingLink(fsBefore, e.real))
      => (~e.ok /\ e.kind = "AccessDenied")

\* C4: a path is accepted only if its comparison form equals an allowed
\* directory or continues it with a path separator.
C4_SegmentContainment ==
  \A e \in ValidateEvents :
    e.ok => \E dir \in allowedDirectories :
              \/ normalizePath(e.real) = dir
              \/ startsWith(normalizePath(e.real), dir \o SL)

\* p does not exist, its parent is an existing directory, and both p and the
\* real location of the parent are inside an allowed root
NewInsideRoot(f, p) ==
  /\ InsideRoots(p)
  /\ ~realpath(f, p).ok
  /\ realpath(f, dirname(p)).ok
  /\ f[realpath(f, dirname(p)).path].kind = "dir"
  /\ InsideRoots(realpath(f, dirname(p)).path)

\* C5: validate of a path that does not exist, with an existing parent
\* directory inside an allowed root, succeeds and returns the absolute form of
\* the path itself.
C5_NewPathReturned ==
  \A e \in ValidateEvents :
    NewInsideRoot(fsBefore, e.real) => (e.ok /\ e.path = e.real)

\* C5 witness: such a path below a linked directory, in upper case, was validated
C5_Witness ==
  \E e \in ValidateEvents :
    /\ NewInsideRoot(fsBefore, e.real)
    /\ e.path = pAjN
    /\ e.path # normalizePath(e.real)
    /\ e.path # join(realpath(fsBefore, dirname(e.real)).path, basename(e.real))

\* C6: a missing target whose parent's real path is outside every root is
\* refused with AccessDenied, and ParentMissing is raised only when neither
\* the target nor its parent exists.
C6_ErrorKindMatchesCause ==
  \A e \in ValidateEvents :
    /\ (/\ ~realpath(fsBefore, e.real).ok
        /\ realpath(fsBefore, dirname(e.real)).ok
        /\ ~InsideRoots(realpath(fsBefore, dirname(e.real)).path))
         => (~e.ok /\ e.kind = "AccessDenied")
    /\ e.kind = "ParentMissing"
         => (~realpath(fsBefore, e.real).ok /\ ~realpath(fsBefore, dirname(e.real)).ok)

\* C7: every filesystem access of a call comes after a successful validate of
\* the same call and is given the path that validate returned; a call in which
\* a validate failed mutates nothing.
C7_ValidateBeforeUse ==
  /\ \A k \in DOMAIN trace :
       trace[k].ev = "fs" =>
         \E j \in 1..(k - 1) :
           trace[j].ev = "validate" /\ trace[j].ok /\ trace[j].path = trace[k].path
  /\ (\E e \in ValidateEvents : ~e.ok)
       => (fs = fsBefore /\ \A e \in FsEvents : e.kind \notin Mutations)

\* C7 witness: a call mutated the filesystem through a validated path that is
\* not the text of the request
C7_Witness ==
  \E k \in DOMAIN trace :
    /\ trace[k].ev = "fs" /\ trace[k].ok /\ trace[k].kind \in Mutations
    /\ \E j \in 1..(k - 1) :
         /\ trace[j].ev = "validate" /\ trace[j].ok
         /\ trace[j].path = trace[k].path
         /\ trace[j].arg # trace[j].path

(***************************************************************************)
(* Properties of the patch engine                                          *)
(***************************************************************************)
\* the last call was an edit_file that got as far as reading the file
EditRead ==
  /\ request.tool = "edit_file"
  /\ Len(trace) >= 2
  /\ trace[2].op = "readFile"
  /\ trace[2].ok

\* the content applyFileEdits started from, and the first edit's texts
ReadContent == normalizeLineEndings(fsBefore[trace[2].real].content)
FirstOld == normalizeLineEndings(request.edits[1].oldText)
FirstNew == normalizeLineEndings(request.edits[1].newText)

\* old occurs nowhere in content
NoExactMatch(content, old) ==
  \A i \in 1..(Len(content) - Len(old) + 1) : SubSeq(content, i, i + Len(old) - 1) # old

\* the line indexes at which the lines of old equal the lines of content up
\* to leading and trailing whitespace
FuzzyWindows(content, old) ==
  { i \in 1..(Len(splitLines(content)) - Len(splitLines(old)) + 1) :
      \A j \in 1..Len(splitLines(old)) :
        trim(splitLines(old)[j]) = trim(splitLines(content)[i + j - 1]) }

\* C8: a first edit whose oldText matches neither exactly nor fuzzily makes
\* the call fail with EditNotFound carrying that oldText, the file untouched.
C8_EditNotFound ==
  (/\ EditRead
   /\ request.edits # <<>>
   /\ NoExactMatch(ReadContent, FirstOld)
   /\ FuzzyWindows(ReadContent, FirstOld) = {})
    => /\ result.isError
       /\ result.error = "EditNotFound"
       /\ result.text = request.edits[1].oldText
       /\ fs = fsBefore

\* C8 witness: a non-dry-run edit of a non-empty file failed on its first edit
C8_Witness ==
  /\ EditRead
  /\ ~request.dryRun
  /\ ReadContent # <<>>
  /\ Len(request.edits) = 2
  /\ NoExactMatch(ReadContent, FirstOld)
  /\ FuzzyWindows(ReadContent, FirstOld) = {}
  /\ result.error = "EditNotFound"

\* C9: with dryRun the files are left as they were and a call whose edits all
\* matched returns a text whose fence holds a non-empty diff; a file is
\* written only without dryRun.
C9_DryRunLeavesDisk ==
  /\ (request.tool = "edit_file" /\ request.dryRun)
       => /\ fs = fsBefore
          /\ ~result.isError => (result.text # <<>> /\ result.text # fenced(<<>>, 3))
  /\ (request.tool = "edit_file" /\ \E e \in FsEvents : e.op = "writeFile")
       => ~request.dryRun

\* C9 witness: a dry run whose edits matched and would have changed the file
C9_Witness ==
  /\ EditRead
  /\ request.dryRun
  /\ ~result.isError
  /\ applyEdits(ReadContent, request.edits).content # ReadContent
  /\ fs = fsBefore

\* a successful, written edit_file call with a single edit
OneEditWritten ==
  /\ EditRead
  /\ Len(request.edits) = 1
  /\ ~request.dryRun
  /\ ~result.isError

\* the lines written, and the first window that matched up to whitespace
WrittenLines == splitLines(fs[trace[2].real].content)
FirstFuzzy == CHOOSE i \in FuzzyWindows(ReadContent, FirstOld) :
                \A k \in FuzzyWindows(ReadContent, FirstOld) : i <= k

\* the first replaced line is the matched block's own indentation followed by
\* the first line of newText without its leading whitespace
FirstLineIndented ==
  /\ FirstFuzzy <= Len(WrittenLines)
  /\ WrittenLines[FirstFuzzy] =
       leadingWs(splitLines(ReadContent)[FirstFuzzy]) \o trimStart(splitLines(FirstNew)[1])

Searched == request.tool = "search_files" /\ ~result.isError

SearchRoot == trace[1].path
Results == { result.text[k] : k \in DOMAIN result.text }

\* the segments of p after those of root
SegsBelow(root, p) == SubSeq(Split(p), Len(Split(root)) + 1, Len(Split(p)))

\* p lies beneath a directory named X somewhere under root
BeneathNamed(root, p, X) ==
  \E i \in 1..(Len(SegsBelow(root, p)) - 1) : SegsBelow(root, p)[i] = X

\* the exclude patterns of the request that have no wildcard
PlainExcludes ==
  { request.excludePatterns[k] :
      k \in { i \in DOMAIN request.excludePatterns : "*" \notin
                { request.excludePatterns[i][j] : j \in DOMAIN request.excludePatterns[i] } } }

\* the entries below the root whose name holds the pattern, letter case aside
NameHits ==
  { q \in DOMAIN fsBefore :
      /\ q # SearchRoot
      /\ Within(q, SearchRoot)
      /\ validatePath(fsBefore, q).ok
      /\ \A d \in DOMAIN fsBefore :
           (d # q /\ d # SearchRoot /\ Within(d, SearchRoot) /\ Within(q, d))
             => fsBefore[d] = Dir
      /\ ~NoExactMatch(toLowerCase(basename(q)), toLowerCase(request.pattern)) }

\* C11: with an exclude pattern X that has no wildcard, no returned path lies
\* beneath a directory named X under the root, and (all exclude patterns being
\* such) every entry whose name matches and that lies beneath no directory so
\* named is returned.
C11_ExcludeDirectoryName ==
  Searched =>
    /\ \A q \in Results : \A X \in PlainExcludes : ~BeneathNamed(SearchRoot, q, X)
    /\ (Cardinality(PlainExcludes) = Len(request.excludePatterns)
          => \A q \in NameHits :
               (\A X \in PlainExcludes : ~BeneathNamed(SearchRoot, q, X)) => q \in Results)

\* C11 witness: matching files beneath directories named by the exclude
\* pattern, at two depths, were left out and a matching file as deep elsewhere
\* was returned
C11_Witness ==
  /\ Searched
  /\ request.excludePatterns = << <<"e">> >>
  /\ \E q \in NameHits : BeneathNamed(SearchRoot, q, <<"e">>)
                           /\ Len(SegsBelow(SearchRoot, q)) = 3 /\ q \notin Results
  /\ \E q \in NameHits : BeneathNamed(SearchRoot, q, <<"e">>)
                           /\ Len(SegsBelow(SearchRoot, q)) = 2 /\ q \notin Results
  /\ \E q \in Results : Len(SegsBelow(SearchRoot, q)) = 3

(***************************************************************************)
(* Properties of the other tools                                           *)
(***************************************************************************)
\* the last call was a move_file whose source and destination both validated
MoveValidated ==
  /\ request.tool = "move_file"
  /\ Len(trace) >= 2
  /\ trace[1].ev = "validate" /\ trace[1].ok
  /\ trace[2].ev = "validate" /\ trace[2].ok

\* C12: a move_file whose validated destination already exists returns an
\* error and changes neither the source nor the destination.
C12_MoveOntoExistingFails ==
  (MoveValidated /\ trace[2].path \in DOMAIN fsBefore)
    => (result.isError /\ fs = fsBefore)

\* p and its parent do not exist; the parent's parent is an existing
\* directory whose real location is inside an allowed root
NestedNew(f, p) ==
  /\ InsideRoots(p)
  /\ ~realpath(f, dirname(p)).ok
  /\ realpath(f, dirname(dirname(p))).ok
  /\ f[realpath(f, dirname(dirname(p))).path].kind = "dir"
  /\ InsideRoots(realpath(f, dirname(dirname(p))).path)

\* p names an existing directory inside an allowed root
ExistingDir(f, p) ==
  /\ InsideRoots(p)
  /\ realpath(f, p).ok
  /\ f[realpath(f, p).path].kind = "dir"
  /\ InsideRoots(realpath(f, p).path)

\* C13: create_directory of a path inside a root whose parent does not exist
\* yet succeeds and leaves the whole chain of directories in place; of an
\* existing directory it succeeds and changes nothing.
C13_CreateNestedDirectories ==
  request.tool = "create_directory" =>
    /\ NestedNew(fsBefore, trace[1].real)
         => /\ ~result.isError
            /\ ExistingDir(fs, trace[1].real)
            /\ ExistingDir(fs, dirname(trace[1].real))
    /\ ExistingDir(fsBefore, trace[1].real) => (~result.isError /\ fs = fsBefore)

\* the file a requested path stands for, when it validates and can be read
Readable(f, path) ==
  /\ validatePath(f, path).ok
  /\ realpath(f, validatePath(f, path).path).ok
  /\ f[realpath(f, validatePath(f, path).path).path].kind = "file"

\* C14: read_multiple_files never fails as a call; its response has one entry
\* per requested path, in request order, which is the file's content when the
\* path validates and can be read and an error for that path otherwise.
C14_ReadFailuresIsolated ==
  request.tool = "read_multiple_files" =>
    /\ ~result.isError
    /\ Len(result.text) = Len(request.paths)
    /\ \A k \in DOMAIN request.paths :
         /\ result.text[k].path = request.paths[k]
         /\ result.text[k].ok = Readable(fsBefore, request.paths[k])
         /\ result.text[k].ok =>
              result.text[k].text =
                fsBefore[realpath(fsBefore, resolve(expandHome(request.paths[k]))).path].content

\* C14 witness: a path that failed was followed by one that was read
C14_Witness ==
  /\ request.tool = "read_multiple_files"
  /\ ~result.isError
  /\ \E i, j \in DOMAIN result.text :
       i < j /\ ~result.text[i].ok /\ result.text[j].ok /\ result.text[j].text # <<>>

\* the regular files in the tree at root
RegularFilesBelow(f, root) == { q \in DOMAIN f : Within(q, root) /\ f[q].kind = "file" }

\* C15: a load_folder request, tool or prompt, never returns more than 30
\* loaded files, and fails when the tree holds more than 30 regular files.
C15_LoadFolderLimit ==
  (request.tool \in {"load_folder", "prompts/load_folder"} /\ trace[1].ok)
    => /\ ~result.isError => result.text <= MAX_FILES
       /\ Cardinality(RegularFilesBelow(fsBefore, trace[1].path)) > MAX_FILES
            => result.isError

(***************************************************************************)
(* Further properties of the patch engine                                  *)
(***************************************************************************)
\* the content after the first k edits of the request, each applied to what
\* the one before it produced
RECURSIVE ContentAfter(_)
ContentAfter(k) ==
  IF k = 0 THEN ReadContent ELSE applyEdit(ContentAfter(k - 1), request.edits[k]).content

\* edit k matches the content the edits before it produced
MatchesAt(k) == applyEdit(ContentAfter(k - 1), request.edits[k]).ok

\* C16: the edits are applied in list order, each to the content produced by
\* the ones before it: when each matches there, the content written is the
\* composition of them all; the first that does not match there fails the
\* call with its oldText, nothing written.
C16_EditsInOrder ==
  (EditRead /\ ~request.dryRun) =>
    /\ (\A k \in DOMAIN request.edits : MatchesAt(k))
         => (~result.isError
             /\ fs[trace[2].real].content = ContentAfter(Len(request.edits)))
    /\ \A k \in DOMAIN request.edits :
         ((\A j \in 1..(k - 1) : MatchesAt(j)) /\ ~MatchesAt(k))
           => /\ result.error = "EditNotFound"
              /\ result.text = request.edits[k].oldText
              /\ fs = fsBefore

\* C16 witness: the second edit matched text that only the first edit had
\* brought in, and the third matched what the second brought in
C16_Witness ==
  /\ EditRead /\ ~request.dryRun /\ ~result.isError
  /\ Len(request.edits) = 3
  /\ ~applyEdit(ReadContent, request.edits[2]).ok
  /\ ~applyEdit(ContentAfter(1), request.edits[3]).ok
  /\ ContentAfter(2) # ContentAfter(1) /\ ContentAfter(1) # ReadContent
  /\ fs[trace[2].real].content = ContentAfter(3)

\* the leftmost place at which old occurs in content
FirstOccurrence(content, old) ==
  CHOOSE i \in 1..(Len(content) - Len(old) + 1) :
    /\ SubSeq(content, i, i + Len(old) - 1) = old
    /\ \A k \in 1..(i - 1) : SubSeq(content, k, k + Len(old) - 1) # old

\* content with the characters of old at place i taken out and new put in
Substituted(content, old, new, i) ==
  SubSeq(content, 1, i - 1) \o new \o SubSeq(content, i + Len(old), Len(content))

\* C17: when oldText occurs verbatim in the content, the result is the
\* content with the leftmost occurrence replaced by newText taken literally,
\* whatever characters newText holds.
C17_ExactReplacesLiterally ==
  (OneEditWritten /\ ~NoExactMatch(ReadContent, FirstOld))
    => fs[trace[2].real].content =
         Substituted(ReadContent, FirstOld, FirstNew, FirstOccurrence(ReadContent, FirstOld))

\* the lines of the content before and after the window of oldText at i
LinesBefore(i) == SubSeq(splitLines(ReadContent), 1, i - 1)
LinesAfter(i) ==
  SubSeq(splitLines(ReadContent), i + Len(splitLines(FirstOld)), Len(splitLines(ReadContent)))

\* the written lines are the content's lines with the window at i replaced by
\* as many lines as newText has
WindowReplaced(i) ==
  /\ Len(WrittenLines) =
       Len(LinesBefore(i)) + Len(splitLines(FirstNew)) + Len(LinesAfter(i))
  /\ SubSeq(WrittenLines, 1, i - 1) = LinesBefore(i)
  /\ SubSeq(WrittenLines, i + Len(splitLines(FirstNew)), Len(WrittenLines)) = LinesAfter(i)

\* C18: the line-block match applies only when oldText is no exact substring
\* (then the exact replacement is what is written); a window matches iff its
\* lines equal those of oldText after trimming; of several matching windows
\* the one with the lowest index is replaced, every line outside it unchanged.
C18_FuzzyFirstMatch ==
  OneEditWritten =>
    /\ (~NoExactMatch(ReadContent, FirstOld) /\ "$" \notin { FirstNew[k] : k \in DOMAIN FirstNew })
         => fs[trace[2].real].content =
              Substituted(ReadContent, FirstOld, FirstNew,
                          FirstOccurrence(ReadContent, FirstOld))
    /\ NoExactMatch(ReadContent, FirstOld)
         => (FuzzyWindows(ReadContent, FirstOld) # {} /\ WindowReplaced(FirstFuzzy))

\* C18 witness: two windows matched up to whitespace only, the first was
\* replaced and the second is still there
C18_Witness ==
  /\ OneEditWritten
  /\ NoExactMatch(ReadContent, FirstOld)
  /\ Cardinality(FuzzyWindows(ReadContent, FirstOld)) >= 2
  /\ WindowReplaced(FirstFuzzy)
  /\ LinesAfter(FirstFuzzy) # <<>>
  /\ WrittenLines[FirstFuzzy] # splitLines(ReadContent)[FirstFuzzy]

Spaces(n) == [k \in 1..n |-> " "]

\* line j of newText as it has to come out beside line j of oldText, below a
\* matched block whose first line is indented by indent
LaterLine(indent, oldLines, newLines, j) ==
  IF /\ j <= Len(oldLines)
     /\ leadingWs(oldLines[j]) # <<>>
     /\ leadingWs(newLines[j]) # <<>>
    THEN indent
           \o Spaces(IF Len(leadingWs(newLines[j])) > Len(leadingWs(oldLines[j]))
                       THEN Len(leadingWs(newLines[j])) - Len(leadingWs(oldLines[j]))
                       ELSE 0)
           \o trimStart(newLines[j])
    ELSE newLines[j]

\* the last edit was written and was matched as a block of lines
FuzzyWritten ==
  /\ OneEditWritten
  /\ NoExactMatch(ReadContent, FirstOld)
  /\ FuzzyWindows(ReadContent, FirstOld) # {}

\* C19: in a line-block match a second or later line of newText comes out as
\* the block's first-line indentation, max(0, new indent - old indent) spaces
\* and the line without its leading whitespace when the old line at that index
\* and the new line are both indented, and unmodified in every other case.
C19_LaterLineIndentation ==
  FuzzyWritten =>
    \A j \in 2..Len(splitLines(FirstNew)) :
      /\ FirstFuzzy + j - 1 <= Len(WrittenLines)
      /\ WrittenLines[FirstFuzzy + j - 1] =
           LaterLine(leadingWs(splitLines(ReadContent)[FirstFuzzy]),
                     splitLines(FirstOld), splitLines(FirstNew), j)

\* C19 witness: below an indented block a line was indented by the
\* difference, and a line beyond the length of oldText came out as it was
C19_Witness ==
  /\ FuzzyWritten
  /\ leadingWs(splitLines(ReadContent)[FirstFuzzy]) # <<>>
  /\ Len(splitLines(FirstOld)) = 2
  /\ Len(splitLines(FirstNew)) = 3
  /\ leadingWs(splitLines(FirstOld)[2]) # <<>>
  /\ Len(leadingWs(splitLines(FirstNew)[2])) > Len(leadingWs(splitLines(FirstOld)[2]))
  /\ WrittenLines[FirstFuzzy + 2] = splitLines(FirstNew)[3]
  /\ WrittenLines[FirstFuzzy + 1] # splitLines(FirstNew)[2]

\* the last call was an edit_file that returned its formatted diff
EditReturned == request.tool = "edit_file" /\ ~result.isError

\* the number of grave accents the returned text begins with
FenceLength ==
  CHOOSE n \in 0..Len(result.text) :
    /\ \A k \in 1..n : result.text[k] = BT
    /\ (n < Len(result.text) => result.text[n + 1] # BT)

\* what stands between the opening fence line and the closing fence
DiffBody == SubSeq(result.text, FenceLength + 6, Len(result.text) - FenceLength - 2)

\* the length of the longest run of grave accents in text
LongestRun(text) ==
  CHOOSE n \in 0..Len(text) :
    /\ \E i \in 1..(Len(text) - n + 1) : \A k \in i..(i + n - 1) : text[k] = BT
    /\ \A m \in (n + 1)..Len(text) :
         \A i \in 1..(Len(text) - m + 1) : \E k \in i..(i + m - 1) : text[k] # BT

\* C20: the returned text is the diff between an opening fence of n grave
\* accents followed by "diff" and a closing fence of n, where n is
\* max(3, longest run of grave accents in the diff + 1).
C20_FenceLength ==
  EditReturned =>
    /\ FenceLength >= 3
    /\ FenceLength = Max(3, LongestRun(DiffBody) + 1)
    /\ SubSeq(result.text, 1, FenceLength + 5) =
         [k \in 1..FenceLength |-> BT] \o <<"d", "i", "f", "f", "\n">>
    /\ SubSeq(result.text, Len(result.text) - FenceLength - 1, Len(result.text)) =
         [k \in 1..FenceLength |-> BT] \o <<"\n", "\n">>

\* C20 witness: the diff held a run of four grave accents and the fence has five
C20_Witness ==
  /\ EditReturned
  /\ LongestRun(DiffBody) = 4
  /\ FenceLength = 5

(***************************************************************************)
(* Line endings and what reaches the disk                                  *)
(***************************************************************************)
\* text without the carriage returns that stand right before a line feed
RECURSIVE KeepFrom(_, _)
KeepFrom(text, i) ==
  IF i > Len(text) THEN <<>>
  ELSE IF text[i] = "\r" /\ i < Len(text) /\ text[i + 1] = "\n" THEN KeepFrom(text, i + 1)
  ELSE <<text[i]>> \o KeepFrom(text, i + 1)

ToLF(text) == KeepFrom(text, 1)

\* the file as it was read, and the request's edits, all written with LF
RawContent == fsBefore[trace[2].real].content
EditsLF == [k \in DOMAIN request.edits |->
              Edit(ToLF(request.edits[k].oldText), ToLF(request.edits[k].newText))]

\* C21: whether the edits match, and which match is taken, depends only on
\* the content and the edits with every CRLF read as LF: the call fails with
\* EditNotFound iff the edits do not match on those, and what it writes is
\* what they give on those.
C21_LineEndingInsensitive ==
  EditRead =>
    /\ (result.error = "EditNotFound") = ~applyEdits(ToLF(RawContent), EditsLF).ok
    /\ (~result.isError /\ ~request.dryRun)
         => fs[trace[2].real].content = applyEdits(ToLF(RawContent), EditsLF).content

\* C21 witness: an old text written with LF was found verbatim in a content
\* written with CRLF, where it does not occur as written
C21_Witness ==
  /\ EditRead /\ ~result.isError /\ ~request.dryRun
  /\ "\r" \in { RawContent[k] : k \in DOMAIN RawContent }
  /\ "\n" \in { request.edits[1].oldText[k] : k \in DOMAIN request.edits[1].oldText }
  /\ NoExactMatch(RawContent, request.edits[1].oldText)
  /\ ~NoExactMatch(ReadContent, FirstOld)
  /\ fs[trace[2].real].content # RawContent

\* the writeFile calls of the last call
Writes == { i \in DOMAIN trace : trace[i].op = "writeFile" }

\* C26: a call in which an edit fails with EditNotFound, at whatever
\* position, writes nothing and leaves the files as they were; a call writes
\* at most once, and only after every edit of the list has matched.
C26_AllOrNothing ==
  request.tool = "edit_file" =>
    /\ result.error = "EditNotFound" => (fs = fsBefore /\ Writes = {})
    /\ Cardinality(Writes) <= 1
    /\ Writes # {} => (EditRead /\ \A k \in DOMAIN request.edits : MatchesAt(k))

\* C26 witness: the first two edits matched and changed the content, the
\* third did not match, and the file is as it was
C26_Witness ==
  /\ EditRead /\ ~request.dryRun
  /\ Len(request.edits) = 3
  /\ MatchesAt(1) /\ MatchesAt(2) /\ ~MatchesAt(3)
  /\ ContentAfter(2) # ReadContent
  /\ result.error = "EditNotFound"
  /\ fs = fsBefore

\* where old first occurs in text (0: nowhere)
FirstAt(text, old) ==
  IF NoExactMatch(text, old) THEN 0
  ELSE CHOOSE i \in 1..(Len(text) + 1) :
         /\ i + Len(old) - 1 <= Len(text)
         /\ SubSeq(text, i, i + Len(old) - 1) = old
         /\ \A j \in 1..(i - 1) : SubSeq(text, j, j + Len(old) - 1) # old

\* the last n characters of text
Suffix(text, n) == SubSeq(text, Len(text) - n + 1, Len(text))

\* C27: a successful call that is not a dry run changes on disk only the
\* text its edits replace: with no edit the file is as it was, and with one
\* edit whose old text occurs in the file, what stands before and after the
\* first occurrence is on disk afterwards as it was before, line endings
\* included.
C27_OnlyReplacedTextChanges ==
  (EditRead /\ ~request.dryRun /\ ~result.isError) =>
    /\ request.edits = <<>> => fs = fsBefore
    /\ (Len(request.edits) = 1 /\ FirstAt(RawContent, request.edits[1].oldText) > 0)
         => LET i == FirstAt(RawContent, request.edits[1].oldText)
                after == Len(RawContent) - (i - 1) - Len(request.edits[1].oldText)
                disk == fs[trace[2].real].content
            IN /\ Len(disk) >= (i - 1) + after
               /\ SubSeq(disk, 1, i - 1) = SubSeq(RawContent, 1, i - 1)
               /\ Suffix(disk, after) = Suffix(RawContent, after)

(***************************************************************************)
(* What the walk of a search visits                                        *)
(***************************************************************************)
\* the search validated its root and listed it
Walking ==
  /\ request.tool = "search_files"
  /\ Len(trace) >= 2
  /\ trace[1].ok
  /\ trace[2].op = "readdir" /\ trace[2].ok

\* the nodes beneath the root, and those an entry q lies beneath
Entries == { q \in DOMAIN fsBefore : q # SearchRoot /\ Within(q, SearchRoot) }
Above(q) == { d \in Entries : d # q /\ Within(q, d) }

FailsValidation(q) == ~validatePath(fsBefore, q).ok
Excluded(q) ==
  \E k \in DOMAIN request.excludePatterns :
    minimatch(relative(SearchRoot, q), globPatternOf(request.excludePatterns[k]))

\* q was listed, or found listing it impossible
Listed(q) == \E e \in FsEvents : e.op = "readdir" /\ e.arg = q

\* q is valid and not excluded, and so is every directory it lies beneath,
\* each of which can be listed
Kept(q) ==
  /\ ~FailsValidation(q) /\ ~Excluded(q)
  /\ \A d \in Above(q) : fsBefore[d] = Dir /\ ~FailsValidation(d) /\ ~Excluded(d)

\* C23: an error raised below the root of a search, such as a directory
\* that cannot be listed, fails neither the search nor anything but the entry
\* it was raised in: every matching entry that is kept is returned.
C23_EntryErrorsContained ==
  Walking =>
    /\ ~result.isError
    /\ \A q \in Entries :
         (Kept(q) /\ nameMatches(basename(q), request.pattern)) => q \in Results

\* C23 witness: a directory below the root could not be listed; entries
\* validated before and after that were returned
C23_Witness ==
  /\ Walking /\ ~result.isError
  /\ \E i \in DOMAIN trace :
       /\ i > 2 /\ trace[i].op = "readdir" /\ ~trace[i].ok
       /\ \E h \in 3..(i - 2) :
            trace[h].ev = "validate" /\ trace[h].arg \in Results
       /\ \E j \in (i + 1)..Len(trace) :
            trace[j].ev = "validate" /\ trace[j].arg \in Results

\* C24: an entry whose path relative to the root matches an exclude pattern
\* is not returned and not listed, and nothing beneath it is returned,
\* whatever the deeper paths match; every other valid directory that is
\* reached is listed, whether or not its name holds the pattern.
C24_ExclusionPrunesSubtree ==
  Walking =>
    /\ \A q \in Entries :
         Excluded(q) => (~Listed(q) /\ \A r \in Results : ~Within(r, q))
    /\ \A q \in Entries : (Kept(q) /\ fsBefore[q].kind = "dir") => Listed(q)

\* C24 witness: an entry that matches by name and no exclude pattern lies
\* beneath an excluded directory and was left out, while a directory whose
\* name did not match was listed and an entry beneath it returned
C24_Witness ==
  /\ Walking /\ ~result.isError
  /\ \E q \in Entries :
       /\ ~Excluded(q) /\ ~FailsValidation(q) /\ nameMatches(basename(q), request.pattern)
       /\ \E d \in Above(q) : Excluded(d)
       /\ q \notin Results
  /\ \E d \in Entries :
       /\ ~nameMatches(basename(d), request.pattern)
       /\ Listed(d)
       /\ \E r \in Results : r # d /\ Within(r, d)

(***************************************************************************)
(* Properties of the walk, one entry at a time                             *)
(***************************************************************************)
\* the search validated and listed its root; what it has returned or pushed
WalkBegun ==
  /\ request.tool = "search_files"
  /\ Len(trace) >= 2
  /\ trace[1].ok /\ trace[2].ok

WalkEnded == request.tool = "search_files" /\ pending = <<>>

WalkResults ==
  IF pending # <<>> THEN { pending[1].results[k] : k \in DOMAIN pending[1].results }
  ELSE { result.text[k] : k \in DOMAIN result.text }

\* C22: at every point of a search, whatever happens to the tree meanwhile:
\* an entry is listed or returned only after its own validation succeeded,
\* and an entry whose validation failed is not returned, is not listed, has
\* nothing beneath it returned, and does not fail the search.
C22_InvalidEntrySkipped ==
  WalkBegun =>
    /\ ~result.isError
    /\ \A i \in DOMAIN trace :
         (i > 2 /\ trace[i].ev = "fs")
           => /\ trace[i - 1].ev = "validate"
              /\ trace[i - 1].arg = trace[i].arg /\ trace[i - 1].ok
    /\ \A q \in WalkResults :
         \E j \in DOMAIN trace : trace[j].ev = "validate" /\ trace[j].arg = q /\ trace[j].ok
    /\ \A i \in DOMAIN trace :
         (i > 2 /\ trace[i].ev = "validate" /\ ~trace[i].ok)
           => /\ \A r \in WalkResults : ~Within(r, trace[i].arg)
              /\ \A j \in DOMAIN trace : trace[j].ev = "fs" => trace[j].arg # trace[i].arg

\* C22 witness: a search came to its end in which an entry whose name
\* matched failed validation and was left out, and an entry validated after
\* it was returned
C22_Witness ==
  /\ WalkBegun /\ WalkEnded /\ ~result.isError
  /\ \E i \in DOMAIN trace :
       /\ i > 2 /\ trace[i].ev = "validate" /\ ~trace[i].ok
       /\ nameMatches(basename(trace[i].arg), request.pattern)
       /\ trace[i].arg \notin WalkResults
       /\ \E j \in (i + 1)..Len(trace) :
            trace[j].ev = "validate" /\ trace[j].ok /\ trace[j].arg \in WalkResults

\* what holds at every point of a walk of an unchanging tree: the directories
\* being listed are real directories each beneath the one before, fewer than
\* MaxStack of them; no entry is visited twice; nothing that is not a real
\* directory is listed
WalkSafe ==
  /\ pending # <<>> =>
       /\ Len(pending[1].stack) < MaxStack
       /\ \A k \in DOMAIN pending[1].stack :
            /\ pending[1].stack[k].dir \in DOMAIN fs
            /\ fs[pending[1].stack[k].dir].kind = "dir"
  /\ \A i, j \in DOMAIN trace :
       (i < j /\ trace[i].ev = "validate" /\ trace[j].ev = "validate")
         => trace[i].arg # trace[j].arg
  /\ \A i \in DOMAIN trace :
       trace[i].op = "readdir"
         => (trace[i].arg \in DOMAIN fs /\ fs[trace[i].arg].kind = "dir")

\* C28: a search of a tree that does not change comes to an end, links to
\* an ancestor and links to one another included: links are not descended
\* into, no entry is visited twice, and the call returns.
C28_SearchTerminates == []WalkSafe /\ <>WalkEnded

\* C28 witness: a search returned from a tree holding a link to an ancestor
\* of the directory it is in and two links to one another, each of them
\* visited and returned
C28_Witness ==
  /\ WalkBegun /\ WalkEnded /\ ~result.isError
  /\ {pAdu, pAp, pAq} \subseteq DOMAIN fs
  /\ {pAdu, pAp, pAq} \subseteq WalkResults

(***************************************************************************)
(* Properties of edit calls in flight together                             *)
(***************************************************************************)
\* the calls that have written, and the one that wrote last
Writers == { i \in DOMAIN pending : pending[i].wrote > 0 }
LastWriter == CHOOSE i \in Writers : \A j \in Writers : pending[j].wrote <= pending[i].wrote

\* call i returned a diff
Succeeded(i) == pending[i].pc = "done" /\ ~pending[i].response.isError

\* C25: edit calls on one file are not serialized: what a call writes is
\* its edits applied to the content it read, whatever has been written since,
\* so once no write is outstanding the file holds the result of the call
\* that wrote last and of that call alone.
C25_LastWriteWins ==
  (Writers # {} /\ \A i \in DOMAIN pending : pending[i].pc # "writing")
    => fs[realpath(fs, pAf).path].content =
         applyEdits(pending[LastWriter].content, pending[LastWriter].edits).content

\* C25 witness: both calls read the original content, both returned a diff,
\* and the file holds the later writer's result, in which the text the other
\* call put in does not occur
C25_Witness ==
  /\ Len(pending) = 2
  /\ Succeeded(1) /\ Succeeded(2)
  /\ pending[1].content = RaceText /\ pending[2].content = RaceText
  /\ \E i \in {1, 2} :
       /\ LastWriter = 3 - i
       /\ pending[i].modifiedContent # RaceText
       /\ pending[i].response.text # fenced(<<>>, 3)
       /\ fs[pAf].content = pending[3 - i].modifiedContent
       /\ fs[pAf].content # pending[i].modifiedContent
       /\ NoExactMatch(fs[pAf].content, pending[i].edits[1].newText)

(***************************************************************************)
(* Properties of the canvas history                                        *)
(***************************************************************************)
\* the canvas that was created, and the elements added to it so far by calls
\* that succeeded, in the order of the calls
Canvas == trace[1].canvasId

RECURSIVE addedFrom(_)
addedFrom(k) ==
  IF k > Len(trace) THEN <<>>
  ELSE (IF trace[k].op = "addElement" /\ trace[k].ok /\ trace[k].canvasId = Canvas
          THEN <<trace[k].element>> ELSE <<>>) \o addedFrom(k + 1)

Added == addedFrom(2)

LatestContent == fs[getFilePath(Canvas, canvasVersions[Canvas])].content

\* the texts strs occur in text from index i on, one after the other
RECURSIVE inOrder(_, _, _)
inOrder(text, strs, i) ==
  IF strs = <<>> THEN TRUE
  ELSE \E j \in i..(Len(text) - Len(strs[1]) + 1) :
         /\ SubSeq(text, j, j + Len(strs[1]) - 1) = strs[1]
         /\ inOrder(text, Tail(strs), j + Len(strs[1]))

\* C29: after createCanvas and any successful addElement calls on the
\* canvas, the content of its latest version holds every element added so
\* far, with its attributes and its text content, in the order of the calls.
C29_HistoryKeepsElements ==
  (trace # <<>> /\ trace[1].op = "createCanvas" /\ trace[1].ok)
    => inOrder(LatestContent, [k \in DOMAIN Added |-> elementString(Added[k])], 1)

====
